---- MODULE Spec2Model ----
(***************************************************************************)
(* The legal compliance checker of bga-marketing-ai                        *)
(* (src/src/services/legal-checker.ts) with the legal_check_results table  *)
(* it writes to and reads from (Database, src/unnamed/part_003).           *)
(* With it, the content record a checked text belongs to, and the content *)
(* queue and its delivery service (src/src/services/content-automation.ts, *)
(* src/src/services/content-delivery.ts).                                  *)
(*                                                                         *)
(* A JavaScript string is modelled as the sequence of its UTF-16 code      *)
(* units, so a text, a violation message and a recommendation are tuples   *)
(* of numbers; the comment above each tuple gives the text it encodes.     *)
(***************************************************************************)
EXTENDS Integers, Sequences, FiniteSets, TLC

VARIABLES
    db,       \* rows of legal_check_results, in insertion order
    calls,    \* the checkContent invocations: position, arguments, locals
    nextUuid, \* number of ids crypto.randomUUID() has handed out
    overall,  \* what the getOverallRisk call of the latest step returned
    run,      \* one category check in progress, rule by rule
    contentGenerations, \* rows of content_generations, by id
    queue,         \* rows of automated_content_queue of one user, by id
    schedule,      \* the user's row of content_delivery_schedules
    deliveries,    \* the processDeliverySchedule invocations
    notifications  \* the notifications that reached the user, in order

\* the state of the content delivery service
deliveryVars == <<queue, schedule, deliveries, notifications>>

vars == <<db, calls, nextUuid, overall, run, contentGenerations,
          deliveryVars>>

----------------------------------------------------------------------------
(* Bounds of the model *)

\* checkContent invocations in one behaviour of Spec
MaxChecks == 2

\* length of the texts SpecEval enumerates over Alphabet
MaxLen == 3

\* rows of automated_content_queue in one behaviour of SpecDelivery
MaxItems == 2

\* processDeliverySchedule invocations in one behaviour of SpecDelivery
MaxRuns == 2

\* content ids the callers pass
ContentIds == {"c1", "c2"}

\* Code units the enumerated texts are built from:
\*   32 space, 97 a (in no character class), 110 n (N of line 46 under /i),
\*   30185 痩 (line 95 only), 28961 無 (line 64), 26666 株 (line 222),
\*   12522 リ (line 207), 34880 血 (line 166), 12427 る (lines 95, 135, 150,
\*   151, 152, 206), 46 . (lines 46, 67, 152, 165, 209)
Alphabet == {32, 97, 110, 30185, 28961, 26666, 12522, 34880, 12427, 46}

----------------------------------------------------------------------------
(* Strings *)

Max(a, b) == IF a >= b THEN a ELSE b

\* String.prototype.includes: needle occurs in hay as a contiguous run
Includes(hay, needle) ==
    \E i \in 1..(Len(hay) - Len(needle) + 1) :
        \A j \in 1..Len(needle) : hay[i + j - 1] = needle[j]

\* the variant spreads the array itself: [...xs]
ArraySpread(xs) == xs

\* [...new Set(xs)]: every value once, at the place of its first occurrence
SetSpread(xs) ==
    LET first == {i \in 1..Len(xs) : \A j \in 1..(i - 1) : xs[j] # xs[i]}
        f[k \in 0..Len(xs)] ==
            IF k = 0 THEN <<>>
            ELSE IF k \in first THEN Append(f[k - 1], xs[k]) ELSE f[k - 1]
    IN  f[Len(xs)]

\* Number to string inside a template literal: decimal digits, 48 is "0"
RECURSIVE NumberToString(_)
NumberToString(n) ==
    IF n < 10 THEN <<48 + n>>
    ELSE Append(NumberToString(n \div 10), 48 + (n % 10))

----------------------------------------------------------------------------
(* Regular expressions.  Every pattern of the checker is /[...]/gi: one    *)
(* character class, so a match is a single code unit of the text that,     *)
(* after case folding, is one of the class's code units.  A class is       *)
(* modelled as the set of the code units written between the brackets.     *)

\* Canonicalize of a non-unicode /i pattern: a..z fold to A..Z; the other
\* ASCII code units, kana and kanji have no case
Canonicalize(ch) == IF ch >= 97 /\ ch <= 122 THEN ch - 32 ELSE ch

ClassMatches(class, ch) ==
    \E c \in class : Canonicalize(c) = Canonicalize(ch)

\* 1-based positions of the text a class matches
MatchPositions(class, str) ==
    {i \in 1..Len(str) : ClassMatches(class, str[i])}

\* RegExp.prototype.test of a global pattern: the search starts at the
\* object's lastIndex; a hit leaves lastIndex after the match, a miss
\* resets it to 0
RegExpTest(class, str, lastIndex) ==
    LET hits == {i \in MatchPositions(class, str) : i > lastIndex}
    IN  IF hits = {}
        THEN [found |-> FALSE, lastIndex |-> 0]
        ELSE [found |-> TRUE,
              lastIndex |-> CHOOSE i \in hits : \A j \in hits : i <= j]

----------------------------------------------------------------------------
(* The rule tables: one set of code units per pattern literal *)

\* legal-checker.ts:45-52
excellencePatterns ==
  \* line 46: /[一番最もNo\.?1]/gi
  << {19968, 30058, 26368, 12418, 78, 111, 46, 63, 49},
  \* line 47: /[業界初世界初日本初]/gi
     {26989, 30028, 21021, 19990, 26085, 26412},
  \* line 48: /[100%完全完璧絶対]/gi
     {49, 48, 37, 23436, 20840, 29863, 32118, 23550},
  \* line 49: /[効果抜群驚異的]/gi
     {21177, 26524, 25244, 32676, 39514, 30064, 30340},
  \* line 50: /[必ず確実間違いなく]/gi
     {24517, 12378, 30906, 23455, 38291, 36949, 12356, 12394, 12367},
  \* line 51: /[史上最高最強最速]/gi
     {21490, 19978, 26368, 39640, 24375, 36895} >>

\* legal-checker.ts:63-68
advantagePatterns ==
  \* line 64: /[無料タダ0円]/gi
  << {28961, 26009, 12479, 12480, 48, 20870},
  \* line 65: /[今だけ限定特別]/gi
     {20170, 12384, 12369, 38480, 23450, 29305, 21029},
  \* line 66: /[大幅値下げ破格]/gi
     {22823, 24133, 20516, 19979, 12370, 30772, 26684},
  \* line 67: /[通常価格.*円.*が.*円]/gi
     {36890, 24120, 20385, 26684, 46, 42, 20870, 12364} >>

\* legal-checker.ts:79-83
exaggerationPatterns ==
  \* line 80: /[誰でも簡単すぐに即効]/gi
  << {35504, 12391, 12418, 31777, 21336, 12377, 12368, 12395, 21363, 21177},
  \* line 81: /[劇的革命的画期的]/gi
     {21127, 30340, 38761, 21629, 30011, 26399},
  \* line 82: /[魔法的奇跡的]/gi
     {39764, 27861, 30340, 22855, 36321} >>

\* legal-checker.ts:94-97
severePatterns ==
  \* line 95: /[絶対に痩せる確実に儲かる]/gi
  << {32118, 23550, 12395, 30185, 12379, 12427, 30906, 23455, 20786, 12363},
  \* line 96: /[副作用なし100%安全]/gi
     {21103, 20316, 29992, 12394, 12375, 49, 48, 37, 23433, 20840} >>

\* legal-checker.ts:134-138
medicalDevicePatterns ==
  \* line 135: /[治療治る病気が治る]/gi
  << {27835, 30274, 12427, 30149, 27671, 12364},
  \* line 136: /[診断診察検査結果]/gi
     {35386, 26029, 23519, 26908, 26619, 32080, 26524},
  \* line 137: /[医療用医療機器医療器具]/gi
     {21307, 30274, 29992, 27231, 22120, 20855} >>

\* legal-checker.ts:149-153
pharmaceuticalPatterns ==
  \* line 150: /[効く効果がある薬用]/gi
  << {21177, 12367, 26524, 12364, 12354, 12427, 34220, 29992},
  \* line 151: /[予防防ぐ改善する]/gi
     {20104, 38450, 12368, 25913, 21892, 12377, 12427},
  \* line 152: /[症状が.*する病状が]/gi
     {30151, 29366, 12364, 46, 42, 12377, 12427, 30149} >>

\* legal-checker.ts:164-168
bodyPartPatterns ==
  \* line 165: /[肌が.*髪が.*歯が.*]/gi
  << {32908, 12364, 46, 42, 39658, 27503},
  \* line 166: /[血行血流血圧]/gi
     {34880, 34892, 27969, 22311},
  \* line 167: /[筋肉関節骨]/gi
     {31563, 32905, 38306, 31680, 39592} >>

\* legal-checker.ts:205-210
investmentPatterns ==
  \* line 206: /[必ず儲かる確実に利益]/gi
  << {24517, 12378, 20786, 12363, 12427, 30906, 23455, 12395, 21033, 30410},
  \* line 207: /[元本保証リスクなし]/gi
     {20803, 26412, 20445, 35388, 12522, 12473, 12463, 12394, 12375},
  \* line 208: /[高利回り高配当]/gi
     {39640, 21033, 22238, 12426, 37197, 24403},
  \* line 209: /[投資.*勧誘]/gi
     {25237, 36039, 46, 42, 21223, 35480} >>

\* legal-checker.ts:221-225
financialPatterns ==
  \* line 222: /[株式FX仮想通貨]/gi
  << {26666, 24335, 70, 88, 20206, 24819, 36890, 36008},
  \* line 223: /[投資信託債券]/gi
     {25237, 36039, 20449, 35351, 20661, 21048},
  \* line 224: /[資産運用ファンド]/gi
     {36039, 29987, 36939, 29992, 12501, 12449, 12531, 12489} >>

----------------------------------------------------------------------------
(* The string literals of the checker *)

\* legal-checker.ts:56  優良誤認の可能性: "
ExcellencePrefix ==
    <<20778, 33391, 35492, 35469, 12398, 21487, 33021, 24615, 58, 32, 34>>

\* legal-checker.ts:56  " のような表現は根拠が必要です
ExcellenceSuffix ==
    <<34, 32, 12398, 12424, 12358, 12394, 34920, 29694, 12399, 26681, 25312, 12364, 24517, 35201,
      12391, 12377>>

\* legal-checker.ts:72  有利誤認の可能性: "
AdvantagePrefix ==
    <<26377, 21033, 35492, 35469, 12398, 21487, 33021, 24615, 58, 32, 34>>

\* legal-checker.ts:72  " の条件や期限を明確にしてください
AdvantageSuffix ==
    <<34, 32, 12398, 26465, 20214, 12420, 26399, 38480, 12434, 26126, 30906, 12395, 12375, 12390,
      12367, 12384, 12373, 12356>>

\* legal-checker.ts:87  誇大表現の可能性: "
ExaggerationPrefix ==
    <<35463, 22823, 34920, 29694, 12398, 21487, 33021, 24615, 58, 32, 34>>

\* legal-checker.ts:87  " はより具体的な表現に変更を推奨
ExaggerationSuffix ==
    <<34, 32, 12399, 12424, 12426, 20855, 20307, 30340, 12394, 34920, 29694, 12395, 22793, 26356,
      12434, 25512, 22888>>

\* legal-checker.ts:101  重大な景表法違反の可能性: "
SeverePrefix ==
    <<37325, 22823, 12394, 26223, 34920, 27861, 36949, 21453, 12398, 21487, 33021, 24615, 58, 32,
      34>>

\* legal-checker.ts:101  " は削除が必要です
SevereSuffix ==
    <<34, 32, 12399, 21066, 38500, 12364, 24517, 35201, 12391, 12377>>

\* legal-checker.ts:142  薬機法違反の可能性: "
MedicalDevicePrefix ==
    <<34220, 27231, 27861, 36949, 21453, 12398, 21487, 33021, 24615, 58, 32, 34>>

\* legal-checker.ts:142  " は医療機器としての承認が必要です
MedicalDeviceSuffix ==
    <<34, 32, 12399, 21307, 30274, 27231, 22120, 12392, 12375, 12390, 12398, 25215, 35469, 12364,
      24517, 35201, 12391, 12377>>

\* legal-checker.ts:157  薬事効果標榜の可能性: "
PharmaceuticalPrefix ==
    <<34220, 20107, 21177, 26524, 27161, 27036, 12398, 21487, 33021, 24615, 58, 32, 34>>

\* legal-checker.ts:157  " は医薬品以外では使用できません
PharmaceuticalSuffix ==
    <<34, 32, 12399, 21307, 34220, 21697, 20197, 22806, 12391, 12399, 20351, 29992, 12391, 12365,
      12414, 12379, 12435>>

\* legal-checker.ts:172  身体への効果標榜: "
BodyPartPrefix ==
    <<36523, 20307, 12408, 12398, 21177, 26524, 27161, 27036, 58, 32, 34>>

\* legal-checker.ts:172  " は薬機法に抵触する可能性があります
BodyPartSuffix ==
    <<34, 32, 12399, 34220, 27231, 27861, 12395, 25269, 35302, 12377, 12427, 21487, 33021, 24615,
      12364, 12354, 12426, 12414, 12377>>

\* legal-checker.ts:214  金商法違反の可能性: "
InvestmentPrefix ==
    <<37329, 21830, 27861, 36949, 21453, 12398, 21487, 33021, 24615, 58, 32, 34>>

\* legal-checker.ts:214  " は投資勧誘規制に抵触します
InvestmentSuffix ==
    <<34, 32, 12399, 25237, 36039, 21223, 35480, 35215, 21046, 12395, 25269, 35302, 12375, 12414,
      12377>>

\* legal-checker.ts:237  金融商品に関する表現では、リスクについての記載が必要です
RiskDisclosureMessage ==
    <<37329, 34701, 21830, 21697, 12395, 38306, 12377, 12427, 34920, 29694, 12391, 12399, 12289,
      12522, 12473, 12463, 12395, 12388, 12356, 12390, 12398, 35352, 36617, 12364, 24517, 35201,
      12391, 12377>>

\* legal-checker.ts:56  undefined
StrUndefined ==
    <<117, 110, 100, 101, 102, 105, 110, 101, 100>>

\* legal-checker.ts:236  リスク
StrRisk ==
    <<12522, 12473, 12463>>

\* legal-checker.ts:236  注意
StrCaution ==
    <<27880, 24847>>

\* legal-checker.ts:268  優良誤認
StrExcellence ==
    <<20778, 33391, 35492, 35469>>

\* legal-checker.ts:272  有利誤認
StrAdvantage ==
    <<26377, 21033, 35492, 35469>>

\* legal-checker.ts:276  誇大表現
StrExaggeration ==
    <<35463, 22823, 34920, 29694>>

\* legal-checker.ts:294  医療機器
StrMedicalDevice ==
    <<21307, 30274, 27231, 22120>>

\* legal-checker.ts:298  薬事効果
StrPharmaceutical ==
    <<34220, 20107, 21177, 26524>>

\* legal-checker.ts:302  身体への効果
StrBodyPart ==
    <<36523, 20307, 12408, 12398, 21177, 26524>>

\* legal-checker.ts:320  投資勧誘
StrInvestment ==
    <<25237, 36039, 21223, 35480>>

\* legal-checker.ts:110  景表法
LawKeikyohyo ==
    <<26223, 34920, 27861>>

\* legal-checker.ts:181  薬機法
LawYakukiho ==
    <<34220, 27231, 27861>>

\* legal-checker.ts:246  金商法
LawKinshoho ==
    <<37329, 21830, 27861>>

\* legal-checker.ts:349  法令チェックが実行されていません
SummaryNotChecked ==
    <<27861, 20196, 12481, 12455, 12483, 12463, 12364, 23455, 34892, 12373, 12428, 12390, 12356,
      12414, 12379, 12435>>

\* legal-checker.ts:366  件の法令違反の可能性が検出されました。修正が必要です。
SummaryViolationSuffix ==
    <<20214, 12398, 27861, 20196, 36949, 21453, 12398, 21487, 33021, 24615, 12364, 26908, 20986,
      12373, 12428, 12414, 12375, 12383, 12290, 20462, 27491, 12364, 24517, 35201, 12391, 12377,
      12290>>

\* legal-checker.ts:368  件の注意事項が検出されました。確認をお勧めします。
SummaryWarningSuffix ==
    <<20214, 12398, 27880, 24847, 20107, 38917, 12364, 26908, 20986, 12373, 12428, 12414, 12375,
      12383, 12290, 30906, 35469, 12434, 12362, 21223, 12417, 12375, 12414, 12377, 12290>>

\* legal-checker.ts:370  法令チェックを通過しました。
SummaryPassed ==
    <<27861, 20196, 12481, 12455, 12483, 12463, 12434, 36890, 36942, 12375, 12414, 12375, 12383,
      12290>>

\* legal-checker.ts:269-270
ExcellenceRecommendations ==
  \* 客観的な根拠やデータを併記してください
  << <<23458, 35251, 30340, 12394, 26681, 25312, 12420, 12487, 12540, 12479, 12434, 20341, 35352,
       12375, 12390, 12367, 12384, 12373, 12356>>,
  \* 「当社調べ」「○○調査機関による」等の出典を明記してください
     <<12300, 24403, 31038, 35519, 12409, 12301, 12300, 9675, 9675, 35519, 26619, 27231, 38306,
       12395, 12424, 12427, 12301, 31561, 12398, 20986, 20856, 12434, 26126, 35352, 12375, 12390,
       12367, 12384, 12373, 12356>> >>

\* legal-checker.ts:273-274
AdvantageRecommendations ==
  \* 価格比較の条件や期限を明確に記載してください
  << <<20385, 26684, 27604, 36611, 12398, 26465, 20214, 12420, 26399, 38480, 12434, 26126, 30906,
       12395, 35352, 36617, 12375, 12390, 12367, 12384, 12373, 12356>>,
  \* 「通常価格との比較」「期間限定」等の詳細を追加してください
     <<12300, 36890, 24120, 20385, 26684, 12392, 12398, 27604, 36611, 12301, 12300, 26399, 38291,
       38480, 23450, 12301, 31561, 12398, 35443, 32048, 12434, 36861, 21152, 12375, 12390, 12367,
       12384, 12373, 12356>> >>

\* legal-checker.ts:277-278
ExaggerationRecommendations ==
  \* より具体的で測定可能な表現に変更してください
  << <<12424, 12426, 20855, 20307, 30340, 12391, 28204, 23450, 21487, 33021, 12394, 34920, 29694,
       12395, 22793, 26356, 12375, 12390, 12367, 12384, 12373, 12356>>,
  \* 実績や事例を基にした表現を使用してください
     <<23455, 32318, 12420, 20107, 20363, 12434, 22522, 12395, 12375, 12383, 34920, 29694, 12434,
       20351, 29992, 12375, 12390, 12367, 12384, 12373, 12356>> >>

\* legal-checker.ts:283
KeikyohyoNoIssue ==
  \* 表現に問題は見つかりませんでした
  << <<34920, 29694, 12395, 21839, 38988, 12399, 35211, 12388, 12363, 12426, 12414, 12379, 12435,
       12391, 12375, 12383>> >>

\* legal-checker.ts:295-296
MedicalDeviceRecommendations ==
  \* 医療機器として承認されていない製品では使用できません
  << <<21307, 30274, 27231, 22120, 12392, 12375, 12390, 25215, 35469, 12373, 12428, 12390, 12356,
       12394, 12356, 35069, 21697, 12391, 12399, 20351, 29992, 12391, 12365, 12414, 12379, 12435>>,
  \* 「健康維持」「快適な生活」等の表現に変更してください
     <<12300, 20581, 24247, 32173, 25345, 12301, 12300, 24555, 36969, 12394, 29983, 27963, 12301,
       31561, 12398, 34920, 29694, 12395, 22793, 26356, 12375, 12390, 12367, 12384, 12373, 12356>> >>

\* legal-checker.ts:299-300
PharmaceuticalRecommendations ==
  \* 医薬品以外では効果・効能の標榜はできません
  << <<21307, 34220, 21697, 20197, 22806, 12391, 12399, 21177, 26524, 12539, 21177, 33021, 12398,
       27161, 27036, 12399, 12391, 12365, 12414, 12379, 12435>>,
  \* 「サポート」「お手伝い」等の補助的表現に変更してください
     <<12300, 12469, 12509, 12540, 12488, 12301, 12300, 12362, 25163, 20253, 12356, 12301, 31561,
       12398, 35036, 21161, 30340, 34920, 29694, 12395, 22793, 26356, 12375, 12390, 12367, 12384,
       12373, 12356>> >>

\* legal-checker.ts:303-304
BodyPartRecommendations ==
  \* 身体部位への直接的な効果表現は避けてください
  << <<36523, 20307, 37096, 20301, 12408, 12398, 30452, 25509, 30340, 12394, 21177, 26524, 34920,
       29694, 12399, 36991, 12369, 12390, 12367, 12384, 12373, 12356>>,
  \* 「気分」「生活の質」等の表現を検討してください
     <<12300, 27671, 20998, 12301, 12300, 29983, 27963, 12398, 36074, 12301, 31561, 12398, 34920,
       29694, 12434, 26908, 35342, 12375, 12390, 12367, 12384, 12373, 12356>> >>

\* legal-checker.ts:309
YakukihoNoIssue ==
  \* 薬機法上の問題は見つかりませんでした
  << <<34220, 27231, 27861, 19978, 12398, 21839, 38988, 12399, 35211, 12388, 12363, 12426, 12414,
       12379, 12435, 12391, 12375, 12383>> >>

\* legal-checker.ts:321-322
InvestmentRecommendations ==
  \* 「必ず」「確実に」等の断定表現は使用できません
  << <<12300, 24517, 12378, 12301, 12300, 30906, 23455, 12395, 12301, 31561, 12398, 26029, 23450,
       34920, 29694, 12399, 20351, 29992, 12391, 12365, 12414, 12379, 12435>>,
  \* リスクについての記載を必ず含めてください
     <<12522, 12473, 12463, 12395, 12388, 12356, 12390, 12398, 35352, 36617, 12434, 24517, 12378,
       21547, 12417, 12390, 12367, 12384, 12373, 12356>> >>

\* legal-checker.ts:325-326
RiskRecommendations ==
  \* 投資にはリスクが伴うことを明記してください
  << <<25237, 36039, 12395, 12399, 12522, 12473, 12463, 12364, 20276, 12358, 12371, 12392, 12434,
       26126, 35352, 12375, 12390, 12367, 12384, 12373, 12356>>,
  \* 過去の実績は将来を保証するものではない旨を記載してください
     <<36942, 21435, 12398, 23455, 32318, 12399, 23558, 26469, 12434, 20445, 35388, 12377, 12427,
       12418, 12398, 12391, 12399, 12394, 12356, 26088, 12434, 35352, 36617, 12375, 12390, 12367,
       12384, 12373, 12356>> >>

\* legal-checker.ts:331
KinshohoNoIssue ==
  \* 金商法上の問題は見つかりませんでした
  << <<37329, 21830, 27861, 19978, 12398, 21839, 38988, 12399, 35211, 12388, 12363, 12426, 12414,
       12379, 12435, 12391, 12375, 12383>> >>

\* the variant of FirstMatch that takes the last element of the array of
\* matches instead of the first
LastMatch(class, str) ==
    LET hits == MatchPositions(class, str)
    IN  IF hits = {} THEN StrUndefined
        ELSE <<str[CHOOSE i \in hits : \A j \in hits : j <= i]>>

\* content.match(pattern)?.[0] of a global pattern: match() rewinds the
\* object to lastIndex 0, collects every match and leaves lastIndex at 0;
\* [0] is the leftmost match, and undefined prints as "undefined" when there
\* is none
FirstMatch(class, str) ==
    LET hits == MatchPositions(class, str)
    IN  IF hits = {} THEN StrUndefined
        ELSE <<str[CHOOSE i \in hits : \A j \in hits : i <= j]>>

\* The variant of RegExpLiteral in which the service keeps one object per
\* literal, so an invocation finds the lastIndex the previous one left.
RegExpShared(call, k) ==
    IF call = 1 THEN 0 ELSE calls[call - 1].financialLastIndex[k]

\* A pattern literal inside a method body is evaluated on every call and
\* yields a new RegExp object, whose lastIndex is 0.  (call, k) names the
\* object: the k-th literal of financialPatterns in invocation `call`.
RegExpLiteral(call, k) == 0

----------------------------------------------------------------------------
(* checkKeikyohyo, legal-checker.ts:39-125.  Each loop body is a step on   *)
(* the locals [violations, riskLevel, checkStatus]; k is the position of   *)
(* the pattern in its table.  A for-of loop is the fold of its step over   *)
(* the table: loop[n] holds the locals after n iterations.  The pattern    *)
(* objects are new in every call, so test() starts at lastIndex 0, and     *)
(* match() leaves them at 0 again.                                         *)

\* lines 40-42
Locals == [violations |-> <<>>, riskLevel |-> 1, checkStatus |-> "passed"]

\* the variant reports every occurrence of a match, not every pattern
excellenceStepPerMatch(acc, k, content) ==
    LET n == Cardinality(MatchPositions(excellencePatterns[k], content))
        message == ExcellencePrefix
                   \o FirstMatch(excellencePatterns[k], content)
                   \o ExcellenceSuffix
    IN  IF RegExpTest(excellencePatterns[k], content, 0).found
        THEN [violations |-> acc.violations \o [m \in 1..n |-> message],
              riskLevel |-> Max(acc.riskLevel, 3),
              checkStatus |-> "warning"]
        ELSE acc

excellenceStep(acc, k, content) ==
    IF RegExpTest(excellencePatterns[k], content, 0).found
    THEN [violations |-> Append(acc.violations,
                            ExcellencePrefix
                            \o FirstMatch(excellencePatterns[k], content)
                            \o ExcellenceSuffix),
          riskLevel |-> Max(acc.riskLevel, 3),
          checkStatus |-> "warning"]
    ELSE acc

\* the variant assigns the tier's level instead of taking the maximum
advantageStepAssign(acc, k, content) ==
    IF RegExpTest(advantagePatterns[k], content, 0).found
    THEN [violations |-> Append(acc.violations,
                            AdvantagePrefix
                            \o FirstMatch(advantagePatterns[k], content)
                            \o AdvantageSuffix),
          riskLevel |-> 2,
          checkStatus |-> IF acc.checkStatus = "passed" THEN "warning"
                          ELSE acc.checkStatus]
    ELSE acc

advantageStep(acc, k, content) ==
    IF RegExpTest(advantagePatterns[k], content, 0).found
    THEN [violations |-> Append(acc.violations,
                            AdvantagePrefix
                            \o FirstMatch(advantagePatterns[k], content)
                            \o AdvantageSuffix),
          riskLevel |-> Max(acc.riskLevel, 2),
          checkStatus |-> IF acc.checkStatus = "passed" THEN "warning"
                          ELSE acc.checkStatus]
    ELSE acc

exaggerationStep(acc, k, content) ==
    IF RegExpTest(exaggerationPatterns[k], content, 0).found
    THEN [violations |-> Append(acc.violations,
                            ExaggerationPrefix
                            \o FirstMatch(exaggerationPatterns[k], content)
                            \o ExaggerationSuffix),
          riskLevel |-> Max(acc.riskLevel, 2),
          checkStatus |-> IF acc.checkStatus = "passed" THEN "warning"
                          ELSE acc.checkStatus]
    ELSE acc

\* the variant treats the severe tier like the other tiers
severeStepWiden(acc, k, content) ==
    IF RegExpTest(severePatterns[k], content, 0).found
    THEN [violations |-> Append(acc.violations,
                            SeverePrefix
                            \o FirstMatch(severePatterns[k], content)
                            \o SevereSuffix),
          riskLevel |-> Max(acc.riskLevel, 4),
          checkStatus |-> IF acc.checkStatus = "passed" THEN "warning"
                          ELSE acc.checkStatus]
    ELSE acc

severeStep(acc, k, content) ==
    IF RegExpTest(severePatterns[k], content, 0).found
    THEN [violations |-> Append(acc.violations,
                            SeverePrefix
                            \o FirstMatch(severePatterns[k], content)
                            \o SevereSuffix),
          riskLevel |-> 5,
          checkStatus |-> "violation"]
    ELSE acc

\* legal-checker.ts:264-287; the variant lacks lines 282-284
getKeikyohyoRecommendationsNoFallback(violations) ==
    LET each(recs, i) ==
            recs
            \o (IF Includes(violations[i], StrExcellence)
                THEN ExcellenceRecommendations ELSE <<>>)
            \o (IF Includes(violations[i], StrAdvantage)
                THEN AdvantageRecommendations ELSE <<>>)
            \o (IF Includes(violations[i], StrExaggeration)
                THEN ExaggerationRecommendations ELSE <<>>)
        loop[n \in 0..Len(violations)] ==
            IF n = 0 THEN <<>> ELSE each(loop[n - 1], n)
    IN  SetSpread(loop[Len(violations)])

getKeikyohyoRecommendations(violations) ==
    LET each(recs, i) ==
            recs
            \o (IF Includes(violations[i], StrExcellence)
                THEN ExcellenceRecommendations ELSE <<>>)
            \o (IF Includes(violations[i], StrAdvantage)
                THEN AdvantageRecommendations ELSE <<>>)
            \o (IF Includes(violations[i], StrExaggeration)
                THEN ExaggerationRecommendations ELSE <<>>)
        loop[n \in 0..Len(violations)] ==
            IF n = 0 THEN <<>> ELSE each(loop[n - 1], n)
        recommendations == loop[Len(violations)]
    IN  SetSpread(IF Len(recommendations) = 0 THEN KeikyohyoNoIssue
                  ELSE recommendations)

\* The LegalCheckResult a category check returns.  legal_references is a
\* constant of the category and created_at is the wall clock; neither is
\* read by the checker afterwards and both are left out.
Result(uuid, contentId, lawType, acc, recommendations) ==
    [id |-> uuid,
     content_generation_id |-> contentId,
     law_type |-> lawType,
     check_status |-> acc.checkStatus,
     risk_level |-> acc.riskLevel,
     violation_details |->
        [violations |-> acc.violations,
         total_issues |-> Len(acc.violations),
         recommendations |-> recommendations]]

checkKeikyohyo(contentId, content, uuid) ==
    LET
        loop1[n \in 0..Len(excellencePatterns)] ==
            IF n = 0 THEN Locals ELSE excellenceStep(loop1[n - 1], n, content)
        loop2[n \in 0..Len(advantagePatterns)] ==
            IF n = 0 THEN loop1[Len(excellencePatterns)]
            ELSE advantageStep(loop2[n - 1], n, content)
        loop3[n \in 0..Len(exaggerationPatterns)] ==
            IF n = 0 THEN loop2[Len(advantagePatterns)]
            ELSE exaggerationStep(loop3[n - 1], n, content)
        loop4[n \in 0..Len(severePatterns)] ==
            IF n = 0 THEN loop3[Len(exaggerationPatterns)]
            ELSE severeStep(loop4[n - 1], n, content)
        acc == loop4[Len(severePatterns)]
    IN  Result(uuid, contentId, LawKeikyohyo, acc,
               getKeikyohyoRecommendations(acc.violations))

----------------------------------------------------------------------------
(* checkYakukiho, legal-checker.ts:128-196 *)

medicalDeviceStep(acc, k, content) ==
    IF RegExpTest(medicalDevicePatterns[k], content, 0).found
    THEN [violations |-> Append(acc.violations,
                            MedicalDevicePrefix
                            \o FirstMatch(medicalDevicePatterns[k], content)
                            \o MedicalDeviceSuffix),
          riskLevel |-> Max(acc.riskLevel, 4),
          checkStatus |-> "violation"]
    ELSE acc

\* the variant assigns 'warning' as the first loop of checkKeikyohyo does
pharmaceuticalStepAssign(acc, k, content) ==
    IF RegExpTest(pharmaceuticalPatterns[k], content, 0).found
    THEN [violations |-> Append(acc.violations,
                            PharmaceuticalPrefix
                            \o FirstMatch(pharmaceuticalPatterns[k], content)
                            \o PharmaceuticalSuffix),
          riskLevel |-> Max(acc.riskLevel, 3),
          checkStatus |-> "warning"]
    ELSE acc

pharmaceuticalStep(acc, k, content) ==
    IF RegExpTest(pharmaceuticalPatterns[k], content, 0).found
    THEN [violations |-> Append(acc.violations,
                            PharmaceuticalPrefix
                            \o FirstMatch(pharmaceuticalPatterns[k], content)
                            \o PharmaceuticalSuffix),
          riskLevel |-> Max(acc.riskLevel, 3),
          checkStatus |-> IF acc.checkStatus = "passed" THEN "warning"
                          ELSE acc.checkStatus]
    ELSE acc

\* the variant assigns 'warning' as the first loop of checkKeikyohyo does
bodyPartStepAssign(acc, k, content) ==
    IF RegExpTest(bodyPartPatterns[k], content, 0).found
    THEN [violations |-> Append(acc.violations,
                            BodyPartPrefix
                            \o FirstMatch(bodyPartPatterns[k], content)
                            \o BodyPartSuffix),
          riskLevel |-> Max(acc.riskLevel, 2),
          checkStatus |-> "warning"]
    ELSE acc

bodyPartStep(acc, k, content) ==
    IF RegExpTest(bodyPartPatterns[k], content, 0).found
    THEN [violations |-> Append(acc.violations,
                            BodyPartPrefix
                            \o FirstMatch(bodyPartPatterns[k], content)
                            \o BodyPartSuffix),
          riskLevel |-> Max(acc.riskLevel, 2),
          checkStatus |-> IF acc.checkStatus = "passed" THEN "warning"
                          ELSE acc.checkStatus]
    ELSE acc

\* legal-checker.ts:290-313
getYakukihoRecommendations(violations) ==
    LET each(recs, i) ==
            recs
            \o (IF Includes(violations[i], StrMedicalDevice)
                THEN MedicalDeviceRecommendations ELSE <<>>)
            \o (IF Includes(violations[i], StrPharmaceutical)
                THEN PharmaceuticalRecommendations ELSE <<>>)
            \o (IF Includes(violations[i], StrBodyPart)
                THEN BodyPartRecommendations ELSE <<>>)
        loop[n \in 0..Len(violations)] ==
            IF n = 0 THEN <<>> ELSE each(loop[n - 1], n)
        recommendations == loop[Len(violations)]
    IN  SetSpread(IF Len(recommendations) = 0 THEN YakukihoNoIssue
                  ELSE recommendations)

checkYakukiho(contentId, content, uuid) ==
    LET
        loop1[n \in 0..Len(medicalDevicePatterns)] ==
            IF n = 0 THEN Locals ELSE medicalDeviceStep(loop1[n - 1], n, content)
        loop2[n \in 0..Len(pharmaceuticalPatterns)] ==
            IF n = 0 THEN loop1[Len(medicalDevicePatterns)]
            ELSE pharmaceuticalStep(loop2[n - 1], n, content)
        loop3[n \in 0..Len(bodyPartPatterns)] ==
            IF n = 0 THEN loop2[Len(pharmaceuticalPatterns)]
            ELSE bodyPartStep(loop3[n - 1], n, content)
        acc == loop3[Len(bodyPartPatterns)]
    IN  Result(uuid, contentId, LawYakukiho, acc,
               getYakukihoRecommendations(acc.violations))

----------------------------------------------------------------------------
(* checkKinshoho, legal-checker.ts:199-261 *)

investmentStep(acc, k, content) ==
    IF RegExpTest(investmentPatterns[k], content, 0).found
    THEN [violations |-> Append(acc.violations,
                            InvestmentPrefix
                            \o FirstMatch(investmentPatterns[k], content)
                            \o InvestmentSuffix),
          riskLevel |-> Max(acc.riskLevel, 4),
          checkStatus |-> "violation"]
    ELSE acc

\* legal-checker.ts:227-233.  The loop only calls test(), so the object of
\* the pattern that hits keeps the lastIndex test() left, and break leaves
\* the later objects untouched.  lastIndex[k] is the lastIndex of the k-th
\* object after the loop.
financialLoop(content, call) ==
    LET step(acc, k) ==
            IF acc.hasFinancialTerms
            THEN [acc EXCEPT
                    !.lastIndex = Append(@, RegExpLiteral(call, k))]
            ELSE LET t == RegExpTest(financialPatterns[k], content,
                                     RegExpLiteral(call, k))
                 IN  [hasFinancialTerms |-> t.found,
                      lastIndex |-> Append(acc.lastIndex, t.lastIndex)]
        loop[n \in 0..Len(financialPatterns)] ==
            IF n = 0 THEN [hasFinancialTerms |-> FALSE, lastIndex |-> <<>>]
            ELSE step(loop[n - 1], n)
    IN  loop[Len(financialPatterns)]

\* legal-checker.ts:235-241; the variant does not look at hasFinancialTerms
riskDisclosureStepAlways(acc, hasFinancialTerms, content) ==
    IF ~Includes(content, StrRisk) /\ ~Includes(content, StrCaution)
    THEN [violations |-> Append(acc.violations, RiskDisclosureMessage),
          riskLevel |-> Max(acc.riskLevel, 2),
          checkStatus |-> IF acc.checkStatus = "passed" THEN "warning"
                          ELSE acc.checkStatus]
    ELSE acc

\* the variant assigns 'warning' as the first loop of checkKeikyohyo does
riskDisclosureStepAssign(acc, hasFinancialTerms, content) ==
    IF hasFinancialTerms
       /\ ~Includes(content, StrRisk) /\ ~Includes(content, StrCaution)
    THEN [violations |-> Append(acc.violations, RiskDisclosureMessage),
          riskLevel |-> Max(acc.riskLevel, 2),
          checkStatus |-> "warning"]
    ELSE acc

riskDisclosureStep(acc, hasFinancialTerms, content) ==
    IF hasFinancialTerms
       /\ ~Includes(content, StrRisk) /\ ~Includes(content, StrCaution)
    THEN [violations |-> Append(acc.violations, RiskDisclosureMessage),
          riskLevel |-> Max(acc.riskLevel, 2),
          checkStatus |-> IF acc.checkStatus = "passed" THEN "warning"
                          ELSE acc.checkStatus]
    ELSE acc

\* legal-checker.ts:316-335
getKinshohoRecommendations(violations) ==
    LET each(recs, i) ==
            recs
            \o (IF Includes(violations[i], StrInvestment)
                THEN InvestmentRecommendations ELSE <<>>)
            \o (IF Includes(violations[i], StrRisk)
                THEN RiskRecommendations ELSE <<>>)
        loop[n \in 0..Len(violations)] ==
            IF n = 0 THEN <<>> ELSE each(loop[n - 1], n)
        recommendations == loop[Len(violations)]
    IN  SetSpread(IF Len(recommendations) = 0 THEN KinshohoNoIssue
                  ELSE recommendations)

checkKinshoho(contentId, content, uuid, call) ==
    LET
        loop1[n \in 0..Len(investmentPatterns)] ==
            IF n = 0 THEN Locals ELSE investmentStep(loop1[n - 1], n, content)
        acc == riskDisclosureStep(
                   loop1[Len(investmentPatterns)],
                   financialLoop(content, call).hasFinancialTerms, content)
    IN  Result(uuid, contentId, LawKinshoho, acc,
               getKinshohoRecommendations(acc.violations))

----------------------------------------------------------------------------
(* Database, src/unnamed/part_003 *)

\* createLegalCheckResult, part_003:232-260: one INSERT.  check_status and
\* risk_level are columns of their own; violation_details goes through
\* JSON.stringify and comes back through JSON.parse, which returns arrays
\* of strings and numbers as they were.
\* the variant is an INSERT OR REPLACE on a table that holds one row per
\* content id and law
replaceLegalCheckResult(table, legalCheck) ==
    Append(SelectSeq(table,
                     LAMBDA row :
                        ~(/\ row.content_generation_id
                                 = legalCheck.content_generation_id
                          /\ row.law_type = legalCheck.law_type)),
           legalCheck)

createLegalCheckResult(table, legalCheck) == Append(table, legalCheck)

\* getLegalCheckResults, part_003:262-273: the rows of one content id.
\* The rows come back ordered by created_at; the checker only folds over
\* them, so the order is left as the insertion order.
getLegalCheckResults(table, contentGenerationId) ==
    SelectSeq(table,
              LAMBDA row : row.content_generation_id = contentGenerationId)

----------------------------------------------------------------------------
(* getOverallRisk, legal-checker.ts:338-378 *)

\* Math.max(...results.map(r => r.risk_level)) of a non-empty array; the
\* variant reads the first row only
maxRiskFirstRow(results) == results[1].risk_level

maxRisk(results) ==
    LET each(m, i) == Max(m, results[i].risk_level)
        loop[n \in 0..Len(results)] ==
            IF n = 0 THEN results[1].risk_level ELSE each(loop[n - 1], n)
    IN  loop[Len(results)]

\* results.filter(r => r.check_status === status).length
CountStatus(results, status) ==
    Len(SelectSeq(results, LAMBDA r : r.check_status = status))

\* legal-checker.ts:354-359
overallStatus(results) ==
    IF \E i \in 1..Len(results) : results[i].check_status = "violation"
    THEN "violation"
    ELSE IF \E i \in 1..Len(results) : results[i].check_status = "warning"
    THEN "warning"
    ELSE "passed"

\* legal-checker.ts:361-371; the variant lacks the final else
overallSummaryNoPass(results) ==
    IF CountStatus(results, "violation") > 0
    THEN NumberToString(CountStatus(results, "violation"))
         \o SummaryViolationSuffix
    ELSE NumberToString(CountStatus(results, "warning"))
         \o SummaryWarningSuffix

overallSummary(results) ==
    LET violationCount == CountStatus(results, "violation")
        warningCount == CountStatus(results, "warning")
    IN  IF violationCount > 0
        THEN NumberToString(violationCount) \o SummaryViolationSuffix
        ELSE IF warningCount > 0
        THEN NumberToString(warningCount) \o SummaryWarningSuffix
        ELSE SummaryPassed

\* the variant lacks the early return of lines 345-351
getOverallRiskNoDefault(table, contentId) ==
    LET results == getLegalCheckResults(table, contentId)
    IN  [overall_risk |-> IF Len(results) = 0 THEN 1 ELSE maxRisk(results),
         status |-> overallStatus(results),
         summary |-> overallSummary(results)]

getOverallRisk(table, contentId) ==
    LET results == getLegalCheckResults(table, contentId)
    IN  IF Len(results) = 0
        THEN [overall_risk |-> 1,
              status |-> "passed",
              summary |-> SummaryNotChecked]
        ELSE [overall_risk |-> maxRisk(results),
              status |-> overallStatus(results),
              summary |-> overallSummary(results)]

----------------------------------------------------------------------------
(* API routes, src/unnamed/part_002 *)

\* GET /content/:id/legal-check, part_002:358-377: the stored rows and
\* getOverallRisk over them, sent as a successful response
legalCheckGet(table, contentId) ==
    [success |-> TRUE,
     data |-> [results |-> getLegalCheckResults(table, contentId),
               overall_risk |-> getOverallRisk(table, contentId)]]

----------------------------------------------------------------------------
(* checkContent, legal-checker.ts:10-36, one invocation per index of       *)
(* `calls`.  Every await of the method is a step: the three category       *)
(* checks, then one createLegalCheckResult per result, then the return.    *)
(* An INSERT that is rejected lands in the catch block, which throws.      *)

Calls == 1..MaxChecks

\* The type of `content` is erased at run time, so a caller can hand over
\* null or undefined.  The two values are tuples that hold no code unit.
Null == <<-1>>

Undefined == <<-2>>

\* "null"
StrNull == <<110, 117, 108, 108>>

IsString(content) == content \notin {Null, Undefined}

\* ToString of the argument of RegExp.prototype.test
ToStr(content) ==
    IF content = Null THEN StrNull
    ELSE IF content = Undefined THEN StrUndefined
    ELSE content

\* `if (pattern.test(content)) { const match = content.match(pattern)... }`
\* with a content that is no string: test() works on ToStr(content), and
\* at the first pattern it succeeds for, content.match is a TypeError
matchThrows(patterns, content) ==
    /\ ~IsString(content)
    /\ \E k \in 1..Len(patterns) :
           RegExpTest(patterns[k], ToStr(content), 0).found

\* the variant is a guard `if (!content) throw ...` at the head of the
\* method, which takes the empty string for a missing value too
checkKeikyohyoRejectsFalsy(content) == content \in {Null, Undefined, <<>>}

\* legal-checker.ts:54-105
checkKeikyohyoThrows(content) ==
    \/ matchThrows(excellencePatterns, content)
    \/ matchThrows(advantagePatterns, content)
    \/ matchThrows(exaggerationPatterns, content)
    \/ matchThrows(severePatterns, content)

\* legal-checker.ts:140-176
checkYakukihoThrows(content) ==
    \/ matchThrows(medicalDevicePatterns, content)
    \/ matchThrows(pharmaceuticalPatterns, content)
    \/ matchThrows(bodyPartPatterns, content)

\* legal-checker.ts:212-241; content.includes of line 236 is a TypeError too
checkKinshohoThrows(content, call) ==
    \/ matchThrows(investmentPatterns, content)
    \/ /\ ~IsString(content)
       /\ financialLoop(ToStr(content), call).hasFinancialTerms

\* '法令チェックの実行に失敗しました'
CheckFailedMessage ==
    <<27861, 20196, 12481, 12455, 12483, 12463, 12398, 23455, 34892, 12395,
      22833, 25943, 12375, 12414, 12375, 12383>>

NoError == [name |-> "none", message |-> <<>>]

\* line 34: new Error(...), whatever was caught
CheckFailedError == [name |-> "Error", message |-> CheckFailedMessage]

\* `caught` is what reached the catch block of line 32, `error` is what the
\* invocation threw to its caller
IdleCall ==
    [pc |-> "idle", contentId |-> "none", content |-> <<>>,
     results |-> <<>>, saved |-> 0, financialLastIndex |-> <<0, 0, 0>>,
     caught |-> "none", error |-> NoError]

NoResponse == [contentId |-> "none"]

Finished(i) == calls[i].pc \in {"returned", "failed"}

\* the caller invokes checkContent(contentId, content), line 10-11
StartCheck(i, contentId, content) ==
    /\ calls[i].pc = "idle"
    /\ calls' = [calls EXCEPT ![i] =
                    [@ EXCEPT !.pc = "checkKeikyohyo",
                              !.contentId = contentId,
                              !.content = content]]
    /\ overall' = NoResponse
    /\ UNCHANGED <<run, contentGenerations, deliveryVars>>
    /\ UNCHANGED <<db, nextUuid>>

\* lines 32-35: the catch block logs what it caught and throws the generic
\* Error; the caller gets no results
catch(i, caught) ==
    [calls EXCEPT ![i] = [@ EXCEPT !.pc = "failed",
                                   !.caught = caught,
                                   !.error = CheckFailedError]]

\* lines 15-16
CheckKeikyohyo(i) ==
    /\ calls[i].pc = "checkKeikyohyo"
    /\ IF checkKeikyohyoThrows(calls[i].content)
       THEN /\ calls' = catch(i, "TypeError")
            /\ UNCHANGED nextUuid
       ELSE /\ calls' = [calls EXCEPT ![i] =
                    [@ EXCEPT !.pc = "checkYakukiho",
                              !.results = Append(@,
                                  checkKeikyohyo(calls[i].contentId,
                                                 ToStr(calls[i].content),
                                                 nextUuid + 1))]]
            /\ nextUuid' = nextUuid + 1
    /\ overall' = NoResponse
    /\ UNCHANGED <<run, contentGenerations, deliveryVars>>
    /\ UNCHANGED db

\* lines 19-20; the variant pushes the result only when the category found
\* something
CheckYakukihoIfIssue(i) ==
    /\ calls[i].pc = "checkYakukiho"
    /\ LET r == checkYakukiho(calls[i].contentId, calls[i].content,
                              nextUuid + 1)
       IN  calls' = [calls EXCEPT ![i] =
                        [@ EXCEPT !.pc = "checkKinshoho",
                                  !.results = IF r.check_status = "passed"
                                              THEN @ ELSE Append(@, r)]]
    /\ nextUuid' = nextUuid + 1
    /\ overall' = NoResponse
    /\ UNCHANGED <<run, contentGenerations, deliveryVars>>
    /\ UNCHANGED db

\* lines 19-20; the variant keeps `results` in a field of the service, so
\* the push of line 20 lands in the array of every invocation in flight
CheckYakukihoSharedResults(i) ==
    /\ calls[i].pc = "checkYakukiho"
    /\ LET r == checkYakukiho(calls[i].contentId, ToStr(calls[i].content),
                              nextUuid + 1)
       IN  calls' = [j \in Calls |->
                        IF j = i
                        THEN [calls[j] EXCEPT !.pc = "checkKinshoho",
                                              !.results = Append(@, r)]
                        ELSE IF calls[j].pc \in {"idle", "returned", "failed"}
                        THEN calls[j]
                        ELSE [calls[j] EXCEPT !.results = Append(@, r)]]
    /\ nextUuid' = nextUuid + 1
    /\ overall' = NoResponse
    /\ UNCHANGED <<run, contentGenerations, deliveryVars>>
    /\ UNCHANGED db

CheckYakukiho(i) ==
    /\ calls[i].pc = "checkYakukiho"
    /\ IF checkYakukihoThrows(calls[i].content)
       THEN /\ calls' = catch(i, "TypeError")
            /\ UNCHANGED nextUuid
       ELSE /\ calls' = [calls EXCEPT ![i] =
                    [@ EXCEPT !.pc = "checkKinshoho",
                              !.results = Append(@,
                                  checkYakukiho(calls[i].contentId,
                                                ToStr(calls[i].content),
                                                nextUuid + 1))]]
            /\ nextUuid' = nextUuid + 1
    /\ overall' = NoResponse
    /\ UNCHANGED <<run, contentGenerations, deliveryVars>>
    /\ UNCHANGED db

\* lines 23-24
CheckKinshoho(i) ==
    /\ calls[i].pc = "checkKinshoho"
    /\ IF checkKinshohoThrows(calls[i].content, i)
       THEN /\ calls' = catch(i, "TypeError")
            /\ UNCHANGED nextUuid
       ELSE /\ calls' = [calls EXCEPT ![i] =
                    [@ EXCEPT !.pc = "save",
                              !.results = Append(@,
                                  checkKinshoho(calls[i].contentId,
                                                ToStr(calls[i].content),
                                                nextUuid + 1, i)),
                              !.financialLastIndex =
                                  financialLoop(ToStr(calls[i].content),
                                                i).lastIndex]]
            /\ nextUuid' = nextUuid + 1
    /\ overall' = NoResponse
    /\ UNCHANGED <<run, contentGenerations, deliveryVars>>
    /\ UNCHANGED db

\* lines 27-29, one iteration: the INSERT succeeds
SaveResult(i) ==
    /\ calls[i].pc = "save"
    /\ calls[i].saved < Len(calls[i].results)
    /\ db' = createLegalCheckResult(db, calls[i].results[calls[i].saved + 1])
    /\ calls' = [calls EXCEPT ![i] = [@ EXCEPT !.saved = @ + 1]]
    /\ overall' = NoResponse
    /\ UNCHANGED <<run, contentGenerations, deliveryVars>>
    /\ UNCHANGED nextUuid

\* lines 27-29 and 32-35, one iteration: the INSERT is rejected, the catch
\* block throws and the caller gets no results
SaveFails(i) ==
    /\ calls[i].pc = "save"
    /\ calls[i].saved < Len(calls[i].results)
    /\ calls' = catch(i, "DatabaseError")
    /\ overall' = NoResponse
    /\ UNCHANGED <<run, contentGenerations, deliveryVars>>
    /\ UNCHANGED <<db, nextUuid>>

\* line 31
ReturnResults(i) ==
    /\ calls[i].pc = "save"
    /\ calls[i].saved = Len(calls[i].results)
    /\ calls' = [calls EXCEPT ![i] = [@ EXCEPT !.pc = "returned"]]
    /\ overall' = NoResponse
    /\ UNCHANGED <<run, contentGenerations, deliveryVars>>
    /\ UNCHANGED <<db, nextUuid>>

\* a caller invokes getOverallRisk(contentId), lines 338-378
GetOverallRisk(contentId) ==
    /\ overall' = [contentId |-> contentId,
                   result |-> getOverallRisk(db, contentId)]
    /\ UNCHANGED <<db, calls, nextUuid, run, contentGenerations,
                    deliveryVars>>

----------------------------------------------------------------------------
(* One category check rule by rule: `run` holds the locals of the method  *)
(* (violations, riskLevel, checkStatus) after the first n rules of the     *)
(* category, in the order in which its loops visit them.                   *)

IdleRun == [law |-> <<>>, n |-> 0, content |-> <<>>, acc |-> Locals]

\* checkKeikyohyo, legal-checker.ts:54-105: the four loops one after another
keikyohyoRule(acc, n, content) ==
    LET e == Len(excellencePatterns)
        a == e + Len(advantagePatterns)
        x == a + Len(exaggerationPatterns)
    IN  IF n <= e THEN excellenceStep(acc, n, content)
        ELSE IF n <= a THEN advantageStep(acc, n - e, content)
        ELSE IF n <= x THEN exaggerationStep(acc, n - a, content)
        ELSE severeStep(acc, n - x, content)

\* checkYakukiho, legal-checker.ts:140-176
yakukihoRule(acc, n, content) ==
    LET m == Len(medicalDevicePatterns)
        p == m + Len(pharmaceuticalPatterns)
    IN  IF n <= m THEN medicalDeviceStep(acc, n, content)
        ELSE IF n <= p THEN pharmaceuticalStep(acc, n - m, content)
        ELSE bodyPartStep(acc, n - p, content)

\* checkKinshoho, legal-checker.ts:212-241: the investment loop, then the
\* financial loop with the risk-disclosure test
kinshohoRule(acc, n, content) ==
    IF n <= Len(investmentPatterns) THEN investmentStep(acc, n, content)
    ELSE riskDisclosureStep(acc,
                            financialLoop(content, 1).hasFinancialTerms,
                            content)

RuleCount(law) ==
    CASE law = LawKeikyohyo ->
            Len(excellencePatterns) + Len(advantagePatterns)
            + Len(exaggerationPatterns) + Len(severePatterns)
      [] law = LawYakukiho ->
            Len(medicalDevicePatterns) + Len(pharmaceuticalPatterns)
            + Len(bodyPartPatterns)
      [] law = LawKinshoho -> Len(investmentPatterns) + 1

\* lines 40-42, 129-131, 200-202: the locals of a category check
BeginCategory(law, content) ==
    /\ run.law = <<>>
    /\ run' = [law |-> law, n |-> 0, content |-> content, acc |-> Locals]
    /\ UNCHANGED <<db, calls, nextUuid, overall, contentGenerations,
                    deliveryVars>>

\* one iteration of the loops of the category
RuleStep ==
    /\ run.law # <<>>
    /\ run.n < RuleCount(run.law)
    /\ run' = [run EXCEPT
                  !.n = @ + 1,
                  !.acc = CASE run.law = LawKeikyohyo ->
                                  keikyohyoRule(@, run.n + 1, run.content)
                            [] run.law = LawYakukiho ->
                                  yakukihoRule(@, run.n + 1, run.content)
                            [] run.law = LawKinshoho ->
                                  kinshohoRule(@, run.n + 1, run.content)]
    /\ UNCHANGED <<db, calls, nextUuid, overall, contentGenerations,
                    deliveryVars>>

----------------------------------------------------------------------------
(* Inputs *)

\* "業界No.1"
TextGyokaiNo1 == <<26989, 30028, 78, 111, 46, 49>>

\* "絶対に痩せる"
TextZettaiNiYaseru == <<32118, 23550, 12395, 30185, 12379, 12427>>

\* "株"
TextKabu == <<26666>>

\* the texts the service is driven with in Spec: the empty text and the
\* three above
ServiceTexts == {<<>>, TextGyokaiNo1, TextZettaiNiYaseru, TextKabu}

\* every text over Alphabet of at most MaxLen code units
RECURSIVE TextsOfLen(_)
TextsOfLen(n) ==
    IF n = 0 THEN {<<>>}
    ELSE {Append(t, c) : t \in TextsOfLen(n - 1), c \in Alphabet}

\* "業界No.1" alone and with one code unit before or after it
SuperiorityTexts ==
    {TextGyokaiNo1}
    \cup {<<c>> \o TextGyokaiNo1 : c \in Alphabet}
    \cup {TextGyokaiNo1 \o <<c>> : c \in Alphabet}

\* the financial-instrument terms the classes of lines 222-224 are written
\* from: 株式, FX, 仮想通貨, 投資信託, 債券, 資産運用, ファンド
FinancialTerms ==
    { <<26666, 24335>>, <<70, 88>>, <<20206, 24819, 36890, 36008>>,
      <<25237, 36039, 20449, 35351>>, <<20661, 21048>>,
      <<36039, 29987, 36939, 29992>>, <<12501, 12449, 12531, 12489>> }

\* each term alone, followed by 注意, by リスク, and by one code unit
FinancialTexts ==
    FinancialTerms
    \cup {t \o StrCaution : t \in FinancialTerms}
    \cup {t \o StrRisk : t \in FinancialTerms}
    \cup {t \o <<c>> : t \in FinancialTerms, c \in Alphabet}

EvalTexts ==
    UNION {TextsOfLen(n) : n \in 0..MaxLen}
    \cup ServiceTexts \cup SuperiorityTexts \cup FinancialTexts

\* what the evaluation is handed in SpecEval: the texts and the two missing
\* values
EvalInputs == EvalTexts \cup {Null, Undefined}

----------------------------------------------------------------------------
(* Content generation: the content_generations row a checked text belongs  *)
(* to (POST /content/generate, ContentGenerationService.generateContent)   *)

\* no row of content_generations has this id
NoContentGeneration == [legal_check_status |-> "none",
                        approval_status    |-> "none",
                        generated_content  |-> <<>>]

\* INSERT INTO content_generations, with the column values generateContent
\* passes
createContentGeneration(table, id, generatedContent) ==
    [table EXCEPT ![id] = [legal_check_status |-> "pending",
                           approval_status    |-> "draft",
                           generated_content  |-> generatedContent]]

\* generateContent: the text the AI returned is stored under a fresh id
GenerateContent(contentId, generatedContent) ==
    /\ contentGenerations[contentId] = NoContentGeneration
    /\ contentGenerations' =
          createContentGeneration(contentGenerations, contentId,
                                  generatedContent)
    /\ UNCHANGED <<db, calls, nextUuid, overall, run, deliveryVars>>

----------------------------------------------------------------------------
(* Content queue (src/src/services/content-automation.ts) and content      *)
(* delivery (src/src/services/content-delivery.ts), for one user           *)

\* delivery_type of a schedule
DeliveryTypes == {"dashboard", "email", "api_webhook"}

Runs == 1..MaxRuns

\* the row generateContentForSchedule builds: status 'pending', not
\* delivered by any method yet
PendingItem == [status |-> "pending", delivery_method |-> "none"]

\* INSERT INTO automated_content_queue; the id of a row is its position
addToContentQueue(table, content) == Append(table, content)

\* SELECT * FROM automated_content_queue WHERE ... status = 'pending'
\* ORDER BY generated_at ASC: the ids of the rows selected
getPendingContentForDelivery(table) ==
    LET sel[k \in 0..Len(table)] ==
            IF k = 0 THEN <<>>
            ELSE IF table[k].status = "pending"
                 THEN Append(sel[k - 1], k)
                 ELSE sel[k - 1]
    IN  sel[Len(table)]

\* UPDATE automated_content_queue SET status = 'delivered',
\* delivery_method = ? WHERE id = ?
markContentAsDelivered(table, contentId, deliveryMethod) ==
    [table EXCEPT ![contentId] = [status          |-> "delivered",
                                  delivery_method |-> deliveryMethod]]

createDeliveryNotification(deliveryType, contentItems) ==
    [delivery_method |-> deliveryType, content_items |-> contentItems]

\* INSERT INTO dashboard_notifications: the user sees the notification
deliverToDashboard(sent, notification) == Append(sent, notification)

\* "Email delivery not implemented yet": a log line, nothing is sent
deliverToEmail(sent, notification) == sent

\* "Webhook delivery not implemented yet": a log line, nothing is sent
deliverToWebhook(sent, notification) == sent

\* the switch on schedule.delivery_type
deliver(sent, notification) ==
    CASE notification.delivery_method = "dashboard" ->
             deliverToDashboard(sent, notification)
      [] notification.delivery_method = "email" ->
             deliverToEmail(sent, notification)
      [] notification.delivery_method = "api_webhook" ->
             deliverToWebhook(sent, notification)
      [] OTHER -> sent

\* the schedule the migration inserts for a user: delivered to the
\* dashboard, next_delivery_at NULL and therefore due
DefaultSchedule == [delivery_type |-> "dashboard", due |-> TRUE]

IdleDelivery == [pc             |-> "idle",
                 entry          |-> "none",
                 delivery_type  |-> "none",
                 pendingContent |-> <<>>,
                 marked         |-> 0,
                 error          |-> FALSE]

\* generateContentForSchedule and addToContentQueue: the nightly automation
\* run puts a generated item into the queue
AddToContentQueue ==
    /\ Len(queue) < MaxItems
    /\ queue' = addToContentQueue(queue, PendingItem)
    /\ UNCHANGED <<schedule, deliveries, notifications>>
    /\ UNCHANGED <<db, calls, nextUuid, overall, run, contentGenerations>>

\* runDelivery: getSchedulesToDeliver selects the schedule when it is due,
\* and processDeliverySchedule is entered with the row selected
RunDelivery(r) ==
    /\ deliveries[r].pc = "idle"
    /\ schedule.due
    /\ deliveries' = [deliveries EXCEPT ![r] =
          [IdleDelivery EXCEPT !.pc = "processing",
                               !.entry = "runDelivery",
                               !.delivery_type = schedule.delivery_type]]
    /\ UNCHANGED <<queue, schedule, notifications>>
    /\ UNCHANGED <<db, calls, nextUuid, overall, run, contentGenerations>>

\* runTestDelivery: getUserDeliverySchedules returns the user's schedule
\* whether it is due or not, and processDeliverySchedule is entered
RunTestDelivery(r) ==
    /\ deliveries[r].pc = "idle"
    /\ deliveries' = [deliveries EXCEPT ![r] =
          [IdleDelivery EXCEPT !.pc = "processing",
                               !.entry = "runTestDelivery",
                               !.delivery_type = schedule.delivery_type]]
    /\ UNCHANGED <<queue, schedule, notifications>>
    /\ UNCHANGED <<db, calls, nextUuid, overall, run, contentGenerations>>

\* processDeliverySchedule, first await: the pending items are read; with
\* none, only the next delivery time is updated
GetPendingContentForDelivery(r) ==
    /\ deliveries[r].pc = "processing"
    /\ LET pendingContent == getPendingContentForDelivery(queue)
       IN  deliveries' = [deliveries EXCEPT ![r] =
              [@ EXCEPT !.pendingContent = pendingContent,
                        !.pc = IF Len(pendingContent) = 0
                               THEN "updating" ELSE "delivering"]]
    /\ UNCHANGED <<queue, schedule, notifications>>
    /\ UNCHANGED <<db, calls, nextUuid, overall, run, contentGenerations>>

\* processDeliverySchedule, the user lookup (which reads no state of this
\* model and finds the user) and the switch on delivery_type
Deliver(r) ==
    /\ deliveries[r].pc = "delivering"
    /\ notifications' =
          deliver(notifications,
                  createDeliveryNotification(deliveries[r].delivery_type,
                                             deliveries[r].pendingContent))
    /\ deliveries' = [deliveries EXCEPT ![r] = [@ EXCEPT !.pc = "marking"]]
    /\ UNCHANGED <<queue, schedule>>
    /\ UNCHANGED <<db, calls, nextUuid, overall, run, contentGenerations>>

\* deliverToDashboard rethrows a rejected INSERT; the catch of
\* processDeliverySchedule logs it and the invocation ends
DeliverFails(r) ==
    /\ deliveries[r].pc = "delivering"
    /\ deliveries[r].delivery_type = "dashboard"
    /\ deliveries' = [deliveries EXCEPT ![r] =
          [@ EXCEPT !.pc = "done", !.error = TRUE]]
    /\ UNCHANGED <<queue, schedule, notifications>>
    /\ UNCHANGED <<db, calls, nextUuid, overall, run, contentGenerations>>

\* one iteration of the loop over pendingContent: the item is marked as
\* delivered by the schedule's delivery type
MarkContentAsDelivered(r) ==
    /\ deliveries[r].pc = "marking"
    /\ deliveries[r].marked < Len(deliveries[r].pendingContent)
    /\ LET k == deliveries[r].marked + 1
       IN  /\ queue' = markContentAsDelivered(queue,
                           deliveries[r].pendingContent[k],
                           deliveries[r].delivery_type)
           /\ deliveries' = [deliveries EXCEPT ![r] =
                 [@ EXCEPT !.marked = k,
                           !.pc = IF k = Len(deliveries[r].pendingContent)
                                  THEN "updating" ELSE "marking"]]
    /\ UNCHANGED <<schedule, notifications>>
    /\ UNCHANGED <<db, calls, nextUuid, overall, run, contentGenerations>>

\* the UPDATE of markContentAsDelivered is rejected: the catch of
\* processDeliverySchedule logs it, the remaining items stay as they are
MarkFails(r) ==
    /\ deliveries[r].pc = "marking"
    /\ deliveries[r].marked < Len(deliveries[r].pendingContent)
    /\ deliveries' = [deliveries EXCEPT ![r] =
          [@ EXCEPT !.pc = "done", !.error = TRUE]]
    /\ UNCHANGED <<queue, schedule, notifications>>
    /\ UNCHANGED <<db, calls, nextUuid, overall, run, contentGenerations>>

\* updateNextDeliveryTime: next_delivery_at moves to the next day, so the
\* schedule is no longer due
UpdateNextDeliveryTime(r) ==
    /\ deliveries[r].pc = "updating"
    /\ schedule' = [schedule EXCEPT !.due = FALSE]
    /\ deliveries' = [deliveries EXCEPT ![r] = [@ EXCEPT !.pc = "done"]]
    /\ UNCHANGED <<queue, notifications>>
    /\ UNCHANGED <<db, calls, nextUuid, overall, run, contentGenerations>>

\* updateDeliverySchedule with updates = { delivery_type }
UpdateDeliverySchedule(deliveryType) ==
    /\ schedule.delivery_type # deliveryType
    /\ schedule' = [schedule EXCEPT !.delivery_type = deliveryType]
    /\ UNCHANGED <<queue, deliveries, notifications>>
    /\ UNCHANGED <<db, calls, nextUuid, overall, run, contentGenerations>>

\* time passes: next_delivery_at <= datetime('now') holds again
NextDeliveryTimeReached ==
    /\ ~schedule.due
    /\ schedule' = [schedule EXCEPT !.due = TRUE]
    /\ UNCHANGED <<queue, deliveries, notifications>>
    /\ UNCHANGED <<db, calls, nextUuid, overall, run, contentGenerations>>

----------------------------------------------------------------------------
(* Specifications *)

Init ==
    /\ db = <<>>
    /\ calls = [i \in Calls |-> IdleCall]
    /\ nextUuid = 0
    /\ overall = NoResponse
    /\ run = IdleRun
    /\ contentGenerations = [id \in ContentIds |-> NoContentGeneration]
    /\ queue = <<>>
    /\ schedule = DefaultSchedule
    /\ deliveries = [r \in Runs |-> IdleDelivery]
    /\ notifications = <<>>

\* The service: checkContent invocations one after another, getOverallRisk
\* at any moment in between their steps
Next ==
    \/ \E i \in Calls :
          /\ calls[i].pc = "idle"
          /\ \A j \in 1..(i - 1) : Finished(j)
          /\ \E contentId \in ContentIds, content \in ServiceTexts :
                StartCheck(i, contentId, content)
    \/ \E i \in Calls : CheckKeikyohyo(i)
    \/ \E i \in Calls : CheckYakukiho(i)
    \/ \E i \in Calls : CheckKinshoho(i)
    \/ \E i \in Calls : SaveResult(i)
    \/ \E i \in Calls : SaveFails(i)
    \/ \E i \in Calls : ReturnResults(i)
    \/ \E contentId \in ContentIds : GetOverallRisk(contentId)

Spec == Init /\ [][Next]_vars

\* One evaluation of every text of EvalTexts: the category checks as pure
\* functions of the text
NextEval ==
    \/ /\ calls[1].pc = "idle"
       /\ \E content \in EvalInputs : StartCheck(1, "c1", content)
    \/ CheckKeikyohyo(1)
    \/ CheckYakukiho(1)
    \/ CheckKinshoho(1)

SpecEval == Init /\ [][NextEval]_vars

\* the texts the invocations of SpecConc are handed: "株" and "痩"
ConcTexts == {TextKabu, <<30185>>}

InFlight == {i \in Calls : calls[i].pc \notin {"idle", "returned", "failed"}}

\* The service under concurrent requests: an invocation starts while
\* another is suspended at an await, and the two interleave await by await.
\* Invocations are numbered in the order in which they start.
NextConc ==
    \/ \E i \in Calls :
          /\ calls[i].pc = "idle"
          /\ \A j \in 1..(i - 1) : calls[j].pc # "idle"
          /\ Cardinality(InFlight) <= 1
          /\ \E content \in ConcTexts : StartCheck(i, "c1", content)
    \/ \E i \in Calls : CheckKeikyohyo(i)
    \/ \E i \in Calls : CheckYakukiho(i)
    \/ \E i \in Calls : CheckKinshoho(i)
    \/ \E i \in Calls : SaveResult(i)
    \/ \E i \in Calls : ReturnResults(i)

SpecConc == Init /\ [][NextConc]_vars

\* One category check of every text of EvalTexts, rule by rule
NextRules ==
    \/ /\ run.law = <<>>
       /\ \E law \in {LawKeikyohyo, LawYakukiho, LawKinshoho},
             content \in EvalTexts : BeginCategory(law, content)
    \/ RuleStep

SpecRules == Init /\ [][NextRules]_vars

\* Content generation followed by the check of the generated text, one
\* request after another
NextGenerate ==
    \/ \E contentId \in ContentIds, content \in ServiceTexts :
          GenerateContent(contentId, content)
    \/ \E i \in Calls :
          /\ calls[i].pc = "idle"
          /\ \A j \in 1..(i - 1) : Finished(j)
          /\ \E contentId \in ContentIds :
                /\ contentGenerations[contentId] # NoContentGeneration
                /\ \A j \in Calls : calls[j].contentId # contentId
                /\ StartCheck(i, contentId,
                      contentGenerations[contentId].generated_content)
    \/ \E i \in Calls : CheckKeikyohyo(i)
    \/ \E i \in Calls : CheckYakukiho(i)
    \/ \E i \in Calls : CheckKinshoho(i)
    \/ \E i \in Calls : SaveResult(i)
    \/ \E i \in Calls : SaveFails(i)
    \/ \E i \in Calls : ReturnResults(i)

SpecGenerate == Init /\ [][NextGenerate]_vars

\* The queue and the delivery runs of one user: items are queued, cron and
\* test deliveries start at any moment and interleave await by await.
\* Invocations are numbered in the order in which they start.
NextDelivery ==
    \/ AddToContentQueue
    \/ \E r \in Runs :
          /\ \A j \in 1..(r - 1) : deliveries[j].pc # "idle"
          /\ RunDelivery(r)
    \/ \E r \in Runs :
          /\ \A j \in 1..(r - 1) : deliveries[j].pc # "idle"
          /\ RunTestDelivery(r)
    \/ \E r \in Runs : GetPendingContentForDelivery(r)
    \/ \E r \in Runs : Deliver(r)
    \/ \E r \in Runs : DeliverFails(r)
    \/ \E r \in Runs : MarkContentAsDelivered(r)
    \/ \E r \in Runs : MarkFails(r)
    \/ \E r \in Runs : UpdateNextDeliveryTime(r)
    \/ \E deliveryType \in DeliveryTypes : UpdateDeliverySchedule(deliveryType)
    \/ NextDeliveryTimeReached

SpecDelivery == Init /\ [][NextDelivery]_vars

----------------------------------------------------------------------------
(* Properties *)

\* what a category finding says, without the generated id
Verdict(r) ==
    [law_type |-> r.law_type,
     check_status |-> r.check_status,
     risk_level |-> r.risk_level,
     violations |-> r.violation_details.violations,
     recommendations |-> r.violation_details.recommendations]

Triggers(class, content) == MatchPositions(class, content) # {}

AnyTriggers(patterns, content) ==
    \E k \in 1..Len(patterns) : Triggers(patterns[k], content)

\* the risk-disclosure rule of 金商法: a financial term and neither リスク
\* nor 注意 in the text
RiskDisclosureTriggers(content) ==
    /\ AnyTriggers(financialPatterns, content)
    /\ ~Includes(content, StrRisk)
    /\ ~Includes(content, StrCaution)

SetMax(S) == CHOOSE m \in S : \A x \in S : x <= m

\* the invocations whose three category checks have run
Evaluated == {i \in Calls : Len(calls[i].results) = 3}

\* C1: two checkContent invocations on the same text produce, category by
\* category, the same violations, status, riskLevel and recommendations,
\* whatever ran before or between them; only the ids differ.
C1_Determinism ==
    \A i \in Calls : \A j \in Calls :
        calls[i].content = calls[j].content =>
            \A k \in 1..Len(calls[i].results) :
                k <= Len(calls[j].results) =>
                    Verdict(calls[i].results[k]) = Verdict(calls[j].results[k])

C1_Witness ==
    /\ calls[1].pc = "returned" /\ calls[2].pc = "returned"
    /\ calls[1].content = TextKabu /\ calls[2].content = TextKabu
    /\ calls[1].contentId # calls[2].contentId
    /\ calls[1].results[3].id # calls[2].results[3].id
    /\ Verdict(calls[1].results[3]) = Verdict(calls[2].results[3])
    /\ calls[2].results[3].check_status = "warning"

\* C2: when a severe-tier pattern of 景表法 triggers on the text, the 景表法
\* finding has status violation and riskLevel 5, whatever else triggered.
C2_SevereShortCircuit ==
    \A i \in Calls :
        (Len(calls[i].results) >= 1
         /\ AnyTriggers(severePatterns, calls[i].content)) =>
            /\ calls[i].results[1].check_status = "violation"
            /\ calls[i].results[1].risk_level = 5

C2_Witness ==
    /\ Len(calls[1].results) >= 1
    /\ Includes(calls[1].content, TextZettaiNiYaseru)
    /\ AnyTriggers(severePatterns, calls[1].content)
    /\ AnyTriggers(excellencePatterns, calls[1].content)
    /\ calls[1].results[1].check_status = "violation"
    /\ calls[1].results[1].risk_level = 5

\* C3: every finding of every category has at least one recommendation.
C3_RecommendationsNonEmpty ==
    \A i \in Calls : \A k \in 1..Len(calls[i].results) :
        Len(calls[i].results[k].violation_details.recommendations) >= 1

\* a 景表法 finding whose only violation is of the severe tier, which no
\* branch of getKeikyohyoRecommendations recognises
C3_Witness ==
    /\ 1 \in Evaluated
    /\ Len(calls[1].results[1].violation_details.violations) = 1
    /\ AnyTriggers(severePatterns, calls[1].content)
    /\ Len(calls[1].results[1].violation_details.recommendations) = 1

\* C4: a checkContent invocation that returns returns exactly three
\* findings, in the order 景表法, 薬機法, 金商法, whichever categories found
\* violations.
C4_ThreeFindingsInOrder ==
    \A i \in Calls :
        calls[i].pc = "returned" =>
            /\ Len(calls[i].results) = 3
            /\ calls[i].results[1].law_type = LawKeikyohyo
            /\ calls[i].results[2].law_type = LawYakukiho
            /\ calls[i].results[3].law_type = LawKinshoho

C4_Witness ==
    \E i \in Calls :
        /\ calls[i].pc = "returned"
        /\ Len(calls[i].results) = 3
        /\ calls[i].results[1].check_status = "passed"
        /\ calls[i].results[2].check_status = "passed"
        /\ calls[i].results[3].check_status = "warning"

\* no violation rule of any category applies to the text
NoRuleMatches(content) ==
    /\ ~AnyTriggers(excellencePatterns, content)
    /\ ~AnyTriggers(advantagePatterns, content)
    /\ ~AnyTriggers(exaggerationPatterns, content)
    /\ ~AnyTriggers(severePatterns, content)
    /\ ~AnyTriggers(medicalDevicePatterns, content)
    /\ ~AnyTriggers(pharmaceuticalPatterns, content)
    /\ ~AnyTriggers(bodyPartPatterns, content)
    /\ ~AnyTriggers(investmentPatterns, content)
    /\ ~RiskDisclosureTriggers(content)

NoIssue == <<KeikyohyoNoIssue, YakukihoNoIssue, KinshohoNoIssue>>

KeikyohyoContributions(content) ==
    {s \in {3} : AnyTriggers(excellencePatterns, content)}
    \cup {s \in {2} : AnyTriggers(advantagePatterns, content)}
    \cup {s \in {2} : AnyTriggers(exaggerationPatterns, content)}
    \cup {s \in {5} : AnyTriggers(severePatterns, content)}

YakukihoContributions(content) ==
    {s \in {4} : AnyTriggers(medicalDevicePatterns, content)}
    \cup {s \in {3} : AnyTriggers(pharmaceuticalPatterns, content)}
    \cup {s \in {2} : AnyTriggers(bodyPartPatterns, content)}

KinshohoContributions(content) ==
    {s \in {4} : AnyTriggers(investmentPatterns, content)}
    \cup {s \in {2} : RiskDisclosureTriggers(content)}

\* k is the position of the category in the result of checkContent
Contributions(k, content) ==
    CASE k = 1 -> KeikyohyoContributions(content)
      [] k = 2 -> YakukihoContributions(content)
      [] k = 3 -> KinshohoContributions(content)

\* C6: the riskLevel of a finding is the largest severity contribution of
\* the rules of its category that triggered (景表法 3, 2, 2, 5; 薬機法 4, 3,
\* 2; 金商法 4, 2), and 1 when none triggered.
C6_RiskLevelIsMaxContribution ==
    \A i \in Calls : \A k \in 1..Len(calls[i].results) :
        calls[i].results[k].risk_level =
            IF Contributions(k, calls[i].content) = {} THEN 1
            ELSE SetMax(Contributions(k, calls[i].content))

\* a lower tier triggers after a higher one in each of 景表法 and 薬機法
C6_Witness ==
    /\ 1 \in Evaluated
    /\ KeikyohyoContributions(calls[1].content) = {3, 2}
    /\ calls[1].results[1].risk_level = 3
    /\ YakukihoContributions(calls[1].content) = {}
    /\ calls[1].results[2].risk_level = 1

\* The rules of a category in table order, each with the message it files
Rules(patterns, prefix, suffix, content) ==
    [k \in 1..Len(patterns) |->
        [triggers |-> Triggers(patterns[k], content),
         message |-> prefix \o FirstMatch(patterns[k], content) \o suffix]]

KeikyohyoRules(content) ==
    Rules(excellencePatterns, ExcellencePrefix, ExcellenceSuffix, content)
    \o Rules(advantagePatterns, AdvantagePrefix, AdvantageSuffix, content)
    \o Rules(exaggerationPatterns, ExaggerationPrefix, ExaggerationSuffix,
             content)
    \o Rules(severePatterns, SeverePrefix, SevereSuffix, content)

YakukihoRules(content) ==
    Rules(medicalDevicePatterns, MedicalDevicePrefix, MedicalDeviceSuffix,
          content)
    \o Rules(pharmaceuticalPatterns, PharmaceuticalPrefix,
             PharmaceuticalSuffix, content)
    \o Rules(bodyPartPatterns, BodyPartPrefix, BodyPartSuffix, content)

KinshohoRules(content) ==
    Rules(investmentPatterns, InvestmentPrefix, InvestmentSuffix, content)
    \o <<[triggers |-> RiskDisclosureTriggers(content),
          message |-> RiskDisclosureMessage]>>

CategoryRules(k, content) ==
    CASE k = 1 -> KeikyohyoRules(content)
      [] k = 2 -> YakukihoRules(content)
      [] k = 3 -> KinshohoRules(content)

\* violations lists exactly the triggering rules of `rules`, one entry
\* each, in the order of `rules`: an order-preserving one-to-one map `at`
\* from the triggering rules onto the entries
ListsTriggered(violations, rules) ==
    LET triggered == {r \in 1..Len(rules) : rules[r].triggers}
        at(r) == Cardinality({q \in triggered : q <= r})
    IN  /\ Len(violations) = Cardinality(triggered)
        /\ \A r \in triggered : violations[at(r)] = rules[r].message

\* C7: every rule of a category that matches the text files exactly one
\* entry in violations, however often it matches and whichever other tiers
\* matched; the entries are in rule-table order; total_issues is their
\* number.
C7_OneEntryPerRuleInTableOrder ==
    \A i \in Calls : \A k \in 1..Len(calls[i].results) :
        /\ ListsTriggered(calls[i].results[k].violation_details.violations,
                          CategoryRules(k, calls[i].content))
        /\ calls[i].results[k].violation_details.total_issues
               = Len(calls[i].results[k].violation_details.violations)

\* the severe-tier character comes first in the text and last in the list,
\* and the superiority pattern of line 46 matches twice
C7_Witness ==
    /\ 1 \in Evaluated
    /\ calls[1].content = <<30185, 110, 110>>
    /\ calls[1].results[1].violation_details.violations
           = << ExcellencePrefix \o <<110>> \o ExcellenceSuffix,
                SeverePrefix \o <<30185>> \o SevereSuffix >>
    /\ calls[1].results[1].violation_details.total_issues = 2

\* the rows of legal_check_results of the content id of the latest
\* getOverallRisk call
RowsAsked == {n \in 1..Len(db) : db[n].content_generation_id = overall.contentId}

ViolationCount ==
    Cardinality({n \in RowsAsked : db[n].check_status = "violation"})

WarningCount ==
    Cardinality({n \in RowsAsked : db[n].check_status = "warning"})

\* C8: with findings stored for the content id, getOverallRisk returns the
\* largest stored risk_level as overall_risk, and status violation if a
\* stored finding is a violation, else warning if one is a warning, else
\* passed.
C8_OverallRiskAggregates ==
    (overall # NoResponse /\ RowsAsked # {}) =>
        /\ overall.result.overall_risk
               = SetMax({db[n].risk_level : n \in RowsAsked})
        /\ overall.result.status =
               IF ViolationCount > 0 THEN "violation"
               ELSE IF WarningCount > 0 THEN "warning"
               ELSE "passed"

C8_Witness ==
    /\ overall # NoResponse
    /\ {db[n].check_status : n \in RowsAsked}
           = {"passed", "warning", "violation"}
    /\ db[1].risk_level = 1
    /\ overall.result.status = "violation"
    /\ overall.result.overall_risk = 5

\* C9: with no finding stored for the content id, getOverallRisk returns
\* status passed, overall_risk 1 and the summary that no check has run.
C9_EmptyFindingsDefault ==
    (overall # NoResponse /\ RowsAsked = {}) =>
        /\ overall.result.status = "passed"
        /\ overall.result.overall_risk = 1
        /\ overall.result.summary = SummaryNotChecked

\* findings are stored, but for another content id
C9_Witness ==
    /\ overall # NoResponse
    /\ RowsAsked = {}
    /\ Len(db) > 0
    /\ overall.result.summary = SummaryNotChecked

\* the summary states a count: its digits followed by the start of the
\* sentence about violations ("件の法令違反") or warnings ("件の注意事項")
ReportsViolations(summary, n) ==
    Includes(summary, NumberToString(n) \o SubSeq(SummaryViolationSuffix, 1, 6))

ReportsWarnings(summary, n) ==
    Includes(summary, NumberToString(n) \o SubSeq(SummaryWarningSuffix, 1, 6))

\* C10 as claimed: for a non-empty finding set the summary reports both the
\* number of violation findings and the number of warning findings, and is
\* the pure-pass message exactly when both are zero.
C10_SummaryReportsBothCounts ==
    (overall # NoResponse /\ RowsAsked # {}) =>
        /\ (overall.result.summary = SummaryPassed)
               <=> (ViolationCount = 0 /\ WarningCount = 0)
        /\ (ViolationCount > 0 \/ WarningCount > 0) =>
               /\ ReportsViolations(overall.result.summary, ViolationCount)
               /\ ReportsWarnings(overall.result.summary, WarningCount)

\* C10, amended: for a non-empty finding set the summary reports the number
\* of violation findings when there is one, and nothing about warnings;
\* otherwise the number of warning findings when there is one; and it is
\* the pure-pass message exactly when both numbers are zero.
C10_SummaryReportsLeadingCount ==
    (overall # NoResponse /\ RowsAsked # {}) =>
        /\ (overall.result.summary = SummaryPassed)
               <=> (ViolationCount = 0 /\ WarningCount = 0)
        /\ ViolationCount > 0 =>
               /\ ReportsViolations(overall.result.summary, ViolationCount)
               /\ ~Includes(overall.result.summary,
                            SubSeq(SummaryWarningSuffix, 1, 6))
        /\ (ViolationCount = 0 /\ WarningCount > 0) =>
               /\ ReportsWarnings(overall.result.summary, WarningCount)
               /\ ~Includes(overall.result.summary,
                            SubSeq(SummaryViolationSuffix, 1, 6))

\* violation and warning findings are both stored, and the summary names
\* the violations only
C10_Witness ==
    /\ overall # NoResponse
    /\ ViolationCount > 0 /\ WarningCount > 0
    /\ overall.result.summary
           = NumberToString(ViolationCount) \o SummaryViolationSuffix

\* C11: checkContent called with null or undefined as the text fails with
\* an InvalidInputError, an error kind of its own, and returns no findings.
C11_NullTextIsInvalidInput ==
    \A i \in Calls :
        (~IsString(calls[i].content)
         /\ calls[i].pc \notin {"idle", "checkKeikyohyo"}) =>
            /\ calls[i].pc = "failed"
            /\ calls[i].results = <<>>
            /\ calls[i].error.name = "InvalidInputError"
            /\ calls[i].error # CheckFailedError

\* C12 as stated: checkContent never fails for a text that is a string,
\* whatever its collaborators do.
C12_NeverFailsForText ==
    \A i \in Calls :
        IsString(calls[i].content) => calls[i].pc # "failed"

\* C12: for a text that is a string the three category checks complete, and
\* checkContent fails only when a createLegalCheckResult call is rejected
\* while the three findings are stored.
C12_FailsOnlyOnRejectedInsert ==
    \A i \in Calls :
        (IsString(calls[i].content) /\ calls[i].pc = "failed") =>
            /\ calls[i].caught = "DatabaseError"
            /\ Len(calls[i].results) = 3
            /\ calls[i].saved < 3

\* the second INSERT of an invocation on "株" is rejected
C12_Witness ==
    \E i \in Calls :
        /\ calls[i].pc = "failed"
        /\ calls[i].content = TextKabu
        /\ calls[i].caught = "DatabaseError"
        /\ calls[i].saved = 1
        /\ Len(db) >= 1

\* C13: for a text that contains "業界No.1", the 景表法 finding has a status
\* other than passed and a riskLevel of at least 3, and its violations hold
\* the superiority-claim entry of the No.1 rule (line 46), which quotes the
\* leftmost substring of the text that the pattern of the rule matches.
C13_SuperiorityClaimIsQuoted ==
    \A i \in Calls :
        (Len(calls[i].results) >= 1
         /\ Includes(calls[i].content, TextGyokaiNo1)) =>
            LET r == calls[i].results[1]
                violations == r.violation_details.violations
                hits == {p \in 1..Len(calls[i].content) :
                            ClassMatches(excellencePatterns[1],
                                         calls[i].content[p])}
            IN  /\ r.check_status # "passed"
                /\ r.risk_level >= 3
                /\ \E p \in hits :
                      /\ \A q \in hits : p <= q
                      /\ \E n \in 1..Len(violations) :
                            violations[n] = ExcellencePrefix
                                            \o <<calls[i].content[p]>>
                                            \o ExcellenceSuffix

\* "n業界No.1": the leftmost match of the class of line 46 is the n in front
C13_Witness ==
    /\ 1 \in Evaluated
    /\ calls[1].content = <<110>> \o TextGyokaiNo1
    /\ calls[1].results[1].check_status = "violation"
    /\ calls[1].results[1].violation_details.violations[1]
           = ExcellencePrefix \o <<110>> \o ExcellenceSuffix

MentionsFinancialTerm(content) ==
    \E t \in FinancialTerms : Includes(content, t)

\* C14 as stated: for a text that mentions a financial-instrument term and
\* does not contain リスク, the 金商法 finding has status warning.
C14_FinancialTermWithoutRiskWarns ==
    \A i \in Calls :
        (Len(calls[i].results) = 3
         /\ MentionsFinancialTerm(calls[i].content)
         /\ ~Includes(calls[i].content, StrRisk)) =>
            calls[i].results[3].check_status = "warning"

\* C14: for a text that mentions a financial-instrument term and contains
\* neither リスク nor 注意, the 金商法 finding lists the risk-disclosure entry
\* and its status is warning when no investment-solicitation pattern
\* matches the text and violation when one does.
C14_FinancialTermWithoutDisclaimer ==
    \A i \in Calls :
        (Len(calls[i].results) = 3
         /\ MentionsFinancialTerm(calls[i].content)
         /\ ~Includes(calls[i].content, StrRisk)
         /\ ~Includes(calls[i].content, StrCaution)) =>
            LET r == calls[i].results[3]
                violations == r.violation_details.violations
            IN  /\ violations # <<>>
                /\ violations[Len(violations)] = RiskDisclosureMessage
                /\ r.check_status =
                       IF \E k \in 1..Len(investmentPatterns) :
                              \E p \in 1..Len(calls[i].content) :
                                  ClassMatches(investmentPatterns[k],
                                               calls[i].content[p])
                       THEN "violation" ELSE "warning"

\* "株式" and nothing else
C14_Witness ==
    /\ 1 \in Evaluated
    /\ calls[1].content = <<26666, 24335>>
    /\ calls[1].results[3].check_status = "warning"
    /\ calls[1].results[3].violation_details.violations
           = <<RiskDisclosureMessage>>

StatusRank(status) ==
    CASE status = "passed" -> 1
      [] status = "warning" -> 2
      [] status = "violation" -> 3

\* the run has visited every rule of its category and its locals are those
\* the category check returns
RunAgreesWithCheck ==
    (run.law # <<>> /\ run.n = RuleCount(run.law)) =>
        LET r == CASE run.law = LawKeikyohyo ->
                        checkKeikyohyo("c1", run.content, 0)
                   [] run.law = LawYakukiho ->
                        checkYakukiho("c1", run.content, 0)
                   [] run.law = LawKinshoho ->
                        checkKinshoho("c1", run.content, 0, 1)
        IN  /\ r.check_status = run.acc.checkStatus
            /\ r.risk_level = run.acc.riskLevel
            /\ r.violation_details.violations = run.acc.violations

\* C15: within one category check, from one rule to the next the running
\* status never moves back in the order passed < warning < violation and
\* the running riskLevel never decreases.
C15_RunningVerdictNeverRegresses ==
    [][run.law # <<>> =>
          /\ StatusRank(run.acc.checkStatus)
                 <= StatusRank(run'.acc.checkStatus)
          /\ run.acc.riskLevel <= run'.acc.riskLevel]_vars

\* 薬機法: a rule of the second loop files its entry after a rule of the
\* first loop made the status violation and the riskLevel 4
C15_Witness ==
    /\ run.law = LawYakukiho
    /\ run.n > Len(medicalDevicePatterns)
    /\ Len(run.acc.violations) >= 2
    /\ Includes(run.acc.violations[1], StrMedicalDevice)
    /\ Includes(run.acc.violations[Len(run.acc.violations)],
                StrPharmaceutical)
    /\ run.acc.checkStatus = "violation"
    /\ run.acc.riskLevel = 4

Range(seq) == {seq[n] : n \in 1..Len(seq)}

\* the sub-concerns of a category: whether a rule of the tier triggers on
\* the text, and the advisory strings the recommendation methods hold for
\* the tier (lines 269-280, 295-306, 321-328); none is held for the severe
\* tier of 景表法
Tiers(k, content) ==
    CASE k = 1 ->
           { [triggers |-> AnyTriggers(excellencePatterns, content),
              advisories |-> Range(ExcellenceRecommendations)],
             [triggers |-> AnyTriggers(advantagePatterns, content),
              advisories |-> Range(AdvantageRecommendations)],
             [triggers |-> AnyTriggers(exaggerationPatterns, content),
              advisories |-> Range(ExaggerationRecommendations)],
             [triggers |-> AnyTriggers(severePatterns, content),
              advisories |-> {}] }
      [] k = 2 ->
           { [triggers |-> AnyTriggers(medicalDevicePatterns, content),
              advisories |-> Range(MedicalDeviceRecommendations)],
             [triggers |-> AnyTriggers(pharmaceuticalPatterns, content),
              advisories |-> Range(PharmaceuticalRecommendations)],
             [triggers |-> AnyTriggers(bodyPartPatterns, content),
              advisories |-> Range(BodyPartRecommendations)] }
      [] k = 3 ->
           { [triggers |-> AnyTriggers(investmentPatterns, content),
              advisories |-> Range(InvestmentRecommendations)],
             [triggers |-> RiskDisclosureTriggers(content),
              advisories |-> Range(RiskRecommendations)] }

\* C16: every sub-concern of a category that filed a violation entry has
\* one of its advisory strings among the recommendations of the finding,
\* and the "no issues" string of the category is among them only when the
\* violations list is empty.
C16_EveryTierIsAdvised ==
    \A i \in Calls : \A k \in 1..Len(calls[i].results) :
        LET details == calls[i].results[k].violation_details
            recs == Range(details.recommendations)
        IN  /\ \A t \in Tiers(k, calls[i].content) :
                  t.triggers => t.advisories \cap recs # {}
            /\ NoIssue[k][1] \in recs => details.violations = <<>>

\* the advisory strings one violation entry of category k generates, in the
\* order of the tests of the recommendation method
AdvisoriesFor(k, violation) ==
    LET when(keyword, advisories) ==
            IF Includes(violation, keyword) THEN advisories ELSE <<>>
    IN  CASE k = 1 -> when(StrExcellence, ExcellenceRecommendations)
                      \o when(StrAdvantage, AdvantageRecommendations)
                      \o when(StrExaggeration, ExaggerationRecommendations)
          [] k = 2 -> when(StrMedicalDevice, MedicalDeviceRecommendations)
                      \o when(StrPharmaceutical, PharmaceuticalRecommendations)
                      \o when(StrBodyPart, BodyPartRecommendations)
          [] k = 3 -> when(StrInvestment, InvestmentRecommendations)
                      \o when(StrRisk, RiskRecommendations)

\* the strings generated while walking the violations list in order, the
\* "no issues" string when there is none
Generated(k, violations) ==
    LET g[n \in 0..Len(violations)] ==
            IF n = 0 THEN <<>>
            ELSE g[n - 1] \o AdvisoriesFor(k, violations[n])
    IN  IF g[Len(violations)] = <<>> THEN NoIssue[k]
        ELSE g[Len(violations)]

\* C17: the recommendations of a finding hold no string twice, hold every
\* generated string, and hold them in the order in which each was generated
\* first while walking the violations list.
C17_RecommendationsDistinctInFirstSeenOrder ==
    \A i \in Calls : \A k \in 1..Len(calls[i].results) :
        LET details == calls[i].results[k].violation_details
            recs == details.recommendations
            gen == Generated(k, details.violations)
            firstAt(s) == CHOOSE n \in 1..Len(gen) :
                              /\ gen[n] = s
                              /\ \A m \in 1..(n - 1) : gen[m] # s
        IN  /\ \A a \in 1..Len(recs) : \A b \in 1..Len(recs) :
                  a # b => recs[a] # recs[b]
            /\ Range(recs) = Range(gen)
            /\ \A a \in 1..Len(recs) : \A b \in 1..Len(recs) :
                  a < b => firstAt(recs[a]) < firstAt(recs[b])

\* two tiers of 景表法 are advised, and a string was generated more than once
C17_Witness ==
    /\ 1 \in Evaluated
    /\ LET details == calls[1].results[1].violation_details
       IN  /\ Len(details.recommendations) >= 4
           /\ Len(Generated(1, details.violations))
                  > Len(details.recommendations)

\* the rows of legal_check_results that carry the id of a finding of
\* invocation i, in table order
RowsOf(table, i) ==
    SelectSeq(table,
              LAMBDA row : \E k \in 1..Len(calls[i].results) :
                              row.id = calls[i].results[k].id)

\* C18: no step modifies or deletes a stored record; a record is only ever
\* added by an invocation that stores one of its own findings; and when
\* checkContent(id, T) returns, the table holds exactly three records of
\* the invocation, under id, one per category and equal to the returned
\* findings.
C18_ChecksOnlyAddTheirFindings ==
    [][/\ Len(db') >= Len(db)
       /\ \A n \in 1..Len(db) : db'[n] = db[n]
       /\ Len(db') > Len(db) =>
             /\ Len(db') = Len(db) + 1
             /\ \E i \in Calls :
                   /\ calls[i].pc = "save"
                   /\ db'[Len(db')] = calls[i].results[calls[i].saved + 1]
       /\ \A i \in Calls :
             (calls[i].pc # "returned" /\ calls'[i].pc = "returned") =>
                 /\ RowsOf(db', i) = calls'[i].results
                 /\ Len(calls'[i].results) = 3
                 /\ \A k \in 1..3 :
                       calls'[i].results[k].content_generation_id
                           = calls'[i].contentId]_vars

\* two invocations for the same content id have returned: six records, the
\* three of the first invocation still in front
C18_Witness ==
    /\ calls[1].pc = "returned" /\ calls[2].pc = "returned"
    /\ calls[1].contentId = calls[2].contentId
    /\ Len(db) = 6
    /\ SubSeq(db, 1, 3) = calls[1].results
    /\ SubSeq(db, 4, 6) = calls[2].results

\* what the three category checks return for a text when nothing else runs
Alone(content) ==
    << Verdict(checkKeikyohyo("c1", content, 0)),
       Verdict(checkYakukiho("c1", content, 0)),
       Verdict(checkKinshoho("c1", content, 0, 1)) >>

\* Alone for every text of ConcTexts
AloneOf == [content \in ConcTexts |-> Alone(content)]

\* C19: however checkContent invocations interleave at their awaits, each
\* holds, and returns, category by category the status, riskLevel,
\* violations and recommendations that the evaluation of its text alone
\* yields, and no finding of another invocation.
C19_InterleavingPreservesVerdicts ==
    \A i \in Calls :
        /\ Len(calls[i].results) <= 3
        /\ \A k \in 1..Len(calls[i].results) :
               Verdict(calls[i].results[k]) = AloneOf[calls[i].content][k]
        /\ calls[i].pc = "returned" => Len(calls[i].results) = 3

\* two invocations on different texts have returned and their INSERTs
\* alternated
C19_Witness ==
    /\ calls[1].pc = "returned" /\ calls[2].pc = "returned"
    /\ calls[1].content # calls[2].content
    /\ Len(db) >= 4
    /\ db[1].id = calls[1].results[1].id
    /\ db[2].id = calls[2].results[1].id
    /\ db[3].id = calls[1].results[2].id
    /\ calls[1].results[3].check_status # calls[2].results[3].check_status

\* the checkContent invocations for a content id that failed, and those
\* that returned
FailedFor(contentId) ==
    {i \in Calls : calls[i].pc = "failed" /\ calls[i].contentId = contentId}

ReturnedFor(contentId) ==
    {i \in Calls : calls[i].pc = "returned" /\ calls[i].contentId = contentId}

\* C20: once a checkContent for a content id has failed and none for the id
\* has returned, the answer of GET /content/:id/legal-check that follows a
\* getOverallRisk call for the id is not a successful response with
\* compliance status passed.
C20_FailedCheckIsNotReportedPassed ==
    (/\ overall # NoResponse
     /\ FailedFor(overall.contentId) # {}
     /\ ReturnedFor(overall.contentId) = {}) =>
        LET response == legalCheckGet(db, overall.contentId)
        IN  ~(/\ response.success
              /\ response.data.overall_risk = overall.result
              /\ response.data.overall_risk.status = "passed")

----------------------------------------------------------------------------
(* Content queue and delivery *)

\* the notifications that reached the user and contain queue item k
NotificationsOf(k) ==
    {n \in 1..Len(notifications) : k \in Range(notifications[n].content_items)}

\* C21: a queue item is delivered only after a notification containing it
\* has been delivered through the delivery channel it is marked with
C21_DeliveredOnlyAfterNotification ==
    \A k \in 1..Len(queue) :
        queue[k].status = "delivered" =>
            \E n \in NotificationsOf(k) :
                notifications[n].delivery_method = queue[k].delivery_method

\* C30: no queue item is contained in two notifications, whatever the
\* interleaving of the delivery runs and whichever marking fails
C30_ItemInAtMostOneNotification ==
    \A k \in 1..Len(queue) : Cardinality(NotificationsOf(k)) <= 1

----------------------------------------------------------------------------
(* Rules and phrases *)

\* the phrases the severe-tier pattern literals of 景表法 spell out:
\* 絶対に痩せる, 確実に儲かる, 副作用なし, 100%安全
BannedPhrases ==
    { <<32118, 23550, 12395, 30185, 12379, 12427>>,
      <<30906, 23455, 12395, 20786, 12363, 12427>>,
      <<21103, 20316, 29992, 12394, 12375>>,
      <<49, 48, 48, 37, 23433, 20840>> }

ContainsBannedPhrase(content) ==
    \E phrase \in BannedPhrases : Includes(content, phrase)

\* C22: the severe tier of 景表法 is reported (riskLevel 5) only for a text
\* that contains one of the banned phrases as a whole; a text with only
\* isolated characters of a phrase does not trigger it
C22_SevereOnlyOnWholePhrase ==
    \A i \in Calls :
        (Len(calls[i].results) >= 1 /\ calls[i].results[1].risk_level = 5) =>
            ContainsBannedPhrase(calls[i].content)

\* status, riskLevel and violations of one finding agree with each other
Consistent(r) ==
    /\ r.check_status = "passed" <=> r.violation_details.violations = <<>>
    /\ r.violation_details.violations = <<>> <=> r.risk_level = 1
    /\ r.check_status = "warning" <=> r.risk_level \in {2, 3}
    /\ r.check_status = "violation" <=> r.risk_level \in {4, 5}

\* C23: in every finding checkContent produces, status is passed iff the
\* violations list is empty iff riskLevel is 1, warning iff riskLevel is 2
\* or 3, and violation iff riskLevel is 4 or 5
C23_StatusRiskViolationsConsistent ==
    \A i \in Calls : \A k \in 1..Len(calls[i].results) :
        Consistent(calls[i].results[k])

\* a 薬機法 finding that is a violation of riskLevel 4 to which a rule of the
\* body-part tier (warning, riskLevel 2) added an entry afterwards
C23_Witness ==
    \E i \in Calls :
        /\ Len(calls[i].results) = 3
        /\ calls[i].results[2].check_status = "violation"
        /\ calls[i].results[2].risk_level = 4
        /\ AnyTriggers(bodyPartPatterns, calls[i].content)
        /\ Len(calls[i].results[2].violation_details.violations) >= 2

\* the phrases the investment-solicitation pattern literals of 金商法 spell
\* out: 必ず儲かる, 確実に利益, 元本保証, リスクなし, 高利回り, 高配当
SolicitationPhrases ==
    { <<24517, 12378, 20786, 12363, 12427>>,
      <<30906, 23455, 12395, 21033, 30410>>,
      <<20803, 26412, 20445, 35388>>,
      <<12522, 12473, 12463, 12394, 12375>>,
      <<39640, 21033, 22238, 12426>>,
      <<39640, 37197, 24403>> }

\* 投資 followed, anywhere later in the text, by 勧誘
InvestmentThenSolicitation(content) ==
    \E p \in 1..Len(content) :
        /\ Includes(SubSeq(content, 1, p), <<25237, 36039>>)
        /\ Includes(SubSeq(content, p + 1, Len(content)), <<21223, 35480>>)

ContainsSolicitationPhrase(content) ==
    \/ \E phrase \in SolicitationPhrases : Includes(content, phrase)
    \/ InvestmentThenSolicitation(content)

\* C24: for a text that mentions a financial-instrument term, contains
\* リスク and contains none of the investment-solicitation phrases, the
\* 金商法 finding has status passed and riskLevel 1
C24_DisclaimerClearsFinancialFinding ==
    \A i \in Calls :
        (Len(calls[i].results) = 3
         /\ MentionsFinancialTerm(calls[i].content)
         /\ Includes(calls[i].content, StrRisk)
         /\ ~ContainsSolicitationPhrase(calls[i].content)) =>
            /\ calls[i].results[3].check_status = "passed"
            /\ calls[i].results[3].risk_level = 1

----------------------------------------------------------------------------
(* Repeated checks and partial results *)

\* the invocations for the content id getOverallRisk was asked about
CallsAsked == {i \in Calls : calls[i].contentId = overall.contentId}

\* the summary names a count of at most the three categories
CountsAtMostThree(summary) ==
    \/ summary = SummaryPassed
    \/ \E n \in 1..3 :
          \/ summary = NumberToString(n) \o SummaryViolationSuffix
          \/ summary = NumberToString(n) \o SummaryWarningSuffix

\* C25: after checkContent calls for a content id that all succeeded,
\* getOverallRisk for the id returns the status and the largest riskLevel
\* of the three findings of the latest call, and its summary counts at most
\* three findings
C25_OverallRiskReflectsLatestCheck ==
    (/\ overall # NoResponse
     /\ CallsAsked # {}
     /\ \A i \in CallsAsked : calls[i].pc = "returned") =>
        LET latest == calls[SetMax(CallsAsked)].results
        IN  /\ overall.result.status = overallStatus(latest)
            /\ overall.result.overall_risk = maxRisk(latest)
            /\ CountsAtMostThree(overall.result.summary)

\* C26: when checkContent has thrown, none of the findings the invocation
\* computed is in the store
C26_FailedCheckStoresNothing ==
    \A i \in Calls :
        calls[i].pc = "failed" => RowsOf(db, i) = <<>>

\* C27: a getOverallRisk for a content id, with no check of the id failed,
\* reads a number of findings that is a multiple of three: none or all of
\* the findings of every check, also of one in progress
C27_ReaderSeesWholeChecks ==
    (/\ overall # NoResponse
     /\ \A i \in CallsAsked : calls[i].pc # "failed") =>
        Cardinality(RowsAsked) % 3 = 0

----------------------------------------------------------------------------
(* Content records *)

\* C28: once checkContent has returned for a content id, the
\* legal_check_status of the content record is passed, needs_review or
\* failed, and no longer pending
C28_CheckedContentIsNotPending ==
    \A i \in Calls :
        calls[i].pc = "returned" =>
            contentGenerations[calls[i].contentId].legal_check_status
                \in {"passed", "needs_review", "failed"}

----------------------------------------------------------------------------
(* Entries of a finding *)

\* C29: the violations list of a finding holds no message twice
C29_ViolationsAreDistinct ==
    \A i \in Calls : \A k \in 1..Len(calls[i].results) :
        LET violations == calls[i].results[k].violation_details.violations
        IN  \A a \in 1..Len(violations) : \A b \in 1..Len(violations) :
                a # b => violations[a] # violations[b]

====
